---- MODULE Spec2Model ----
(***************************************************************************)
(* Model of the lead toolchain: the register virtual machine (lead-vm),    *)
(* the host harness that drains its channel (leadc Pipeline::run) and the  *)
(* IR generator (lead air) whose output the machine executes.              *)
(*                                                                         *)
(* A 32-bit word is held as a pair <<hi, lo>> of 16-bit halves so that     *)
(* every u32 value is representable and the width of the arithmetic is     *)
(* kept exactly.                                                           *)
(***************************************************************************)
EXTENDS Integers, Sequences, FiniteSets, TLC

(***************************************************************************)
(* Bounds of the model.                                                    *)
(***************************************************************************)
\* largest memory size (bytes) a machine is constructed with
MaxMem == 12
\* largest operand value the source programs are instantiated with
MaxVal == 3

(***************************************************************************)
(* u32 values.                                                             *)
(***************************************************************************)
Half == 65536

U32(n) == <<n \div Half, n % Half>>

Zero == <<0, 0>>

MaxWord == <<65535, 65535>>

LtW(a, b) == a[1] < b[1] \/ (a[1] = b[1] /\ a[2] < b[2])

LeW(a, b) == a = b \/ LtW(a, b)

\* a + b on u32: the wrapped sum and whether it overflowed
AddW(a, b) ==
    LET lo == a[2] + b[2]
        hi == a[1] + b[1] + (lo \div Half)
    IN  [val |-> <<hi % Half, lo % Half>>, ovf |-> hi >= Half]

\* a - b on u32: the wrapped difference and whether it underflowed
SubW(a, b) ==
    LET lo == a[2] - b[2]
        bw == IF lo < 0 THEN 1 ELSE 0
        hi == a[1] - b[1] - bw
    IN  [val |-> <<(hi + Half) % Half, (lo + Half) % Half>>, ovf |-> hi < 0]

\* byte k (0 = least significant) of a word
ByteOf(a, k) ==
    CASE k = 0 -> a[2] % 256
      [] k = 1 -> a[2] \div 256
      [] k = 2 -> a[1] % 256
      [] k = 3 -> a[1] \div 256

\* a * b on u32 by columns of byte products
MulW(a, b) ==
    LET col(k) == LET I == {i \in 0..3 : k - i \in 0..3}
                      RECURSIVE sum(_)
                      sum(S) == IF S = {} THEN 0
                                ELSE LET i == CHOOSE x \in S : TRUE
                                     IN  ByteOf(a, i) * ByteOf(b, k - i) + sum(S \ {i})
                  IN  sum(I)
        t0 == col(0)
        t1 == col(1) + (t0 \div 256)
        t2 == col(2) + (t1 \div 256)
        t3 == col(3) + (t2 \div 256)
    IN  [val |-> <<(t2 % 256) + 256 * (t3 % 256), (t0 % 256) + 256 * (t1 % 256)>>,
         ovf |-> (t3 \div 256) + col(4) + col(5) + col(6) > 0]

\* bit i (0 = least significant) of a word
BitOf(a, i) == IF i >= 16 THEN (a[1] \div (2 ^ (i - 16))) % 2 ELSE (a[2] \div (2 ^ i)) % 2

\* 2 * a + bit, the high half left free to carry the 33rd bit
Shl1(a, bit) == <<2 * a[1] + (a[2] \div 32768), ((2 * a[2]) % Half) + bit>>

RECURSIVE DivLoop(_, _, _, _, _)
DivLoop(a, b, i, rem, q) ==
    IF i < 0 THEN q
    ELSE LET r1 == Shl1(rem, BitOf(a, i))
             ge == ~LtW(r1, b)
             lo == r1[2] - b[2]
             bw == IF lo < 0 THEN 1 ELSE 0
             r2 == IF ge THEN <<r1[1] - b[1] - bw, (lo + Half) % Half>> ELSE r1
         IN  DivLoop(a, b, i - 1, r2, Shl1(q, IF ge THEN 1 ELSE 0))

\* a / b on u32, b nonzero
DivW(a, b) == DivLoop(a, b, 31, Zero, Zero)

NotW(a) == <<65535 - a[1], 65535 - a[2]>>

\* to_be_bytes giving the least significant byte first
to_le_bytes(a) == <<a[2] % 256, a[2] \div 256, a[1] % 256, a[1] \div 256>>

to_be_bytes(a) == <<a[1] \div 256, a[1] % 256, a[2] \div 256, a[2] % 256>>

from_be_bytes(bs) == <<bs[1] * 256 + bs[2], bs[3] * 256 + bs[4]>>


(***************************************************************************)
(* Option values: None is the empty sequence, Some(x) the singleton.       *)
(***************************************************************************)
None == <<>>

Some(x) == <<x>>

(***************************************************************************)
(* The instruction set (lead air/air.rs).                                  *)
(***************************************************************************)
ADD(rd, rx, ry) == [op |-> "ADD", rd |-> rd, rx |-> rx, ry |-> ry]

SUB(rd, rx, ry) == [op |-> "SUB", rd |-> rd, rx |-> rx, ry |-> ry]

MUL(rd, rx, ry) == [op |-> "MUL", rd |-> rd, rx |-> rx, ry |-> ry]

DIV(rd, rx, ry) == [op |-> "DIV", rd |-> rd, rx |-> rx, ry |-> ry]

CON(rd, val) == [op |-> "CON", rd |-> rd, val |-> val]

MOV(rd, rx) == [op |-> "MOV", rd |-> rd, rx |-> rx]

NOT(rd, rx) == [op |-> "NOT", rd |-> rd, rx |-> rx]

\* hint is None or Some(flag)
CMP(rx, ry, hint) == [op |-> "CMP", rx |-> rx, ry |-> ry, hint |-> hint]

CHK(flag) == [op |-> "CHK", flag |-> flag]

STR(rs, ra, mode) == [op |-> "STR", rs |-> rs, ra |-> ra, mode |-> mode]

LDR(rd, ra, mode) == [op |-> "LDR", rd |-> rd, ra |-> ra, mode |-> mode]

LBL(label) == [op |-> "LBL", label |-> label]

BRA(label) == [op |-> "BRA", label |-> label]

YLD(rx) == [op |-> "YLD", rx |-> rx]

\* addressing modes; Mode::None is the spec's Plain
ModeNone == [kind |-> "None", r |-> 0]

Offset(r) == [kind |-> "Offset", r |-> r]

PreOffset(r) == [kind |-> "PreOffset", r |-> r]

PostOffset(r) == [kind |-> "PostOffset", r |-> r]

Flag == {"Al", "Eq", "Ne", "Lt", "Le", "Gt", "Ge", "Nv"}

\* `flag as u8`: the discriminant of the enum
FlagBit(flag) ==
    CASE flag = "Al" -> 0
      [] flag = "Eq" -> 1
      [] flag = "Ne" -> 2
      [] flag = "Lt" -> 3
      [] flag = "Le" -> 4
      [] flag = "Gt" -> 5
      [] flag = "Ge" -> 6
      [] flag = "Nv" -> 7

output_register(inst) ==
    IF inst.op \in {"ADD", "SUB", "MUL", "DIV", "CON", "NOT"} THEN Some(inst.rd) ELSE None

(***************************************************************************)
(* Messages of the yield channel.                                          *)
(***************************************************************************)
Yield(v) == [type |-> "Yield", val |-> v]

Done == [type |-> "Done", val |-> Zero]


(***************************************************************************)
(* Segments (air/segment.rs).  A segment is kept as its flattened          *)
(* instruction sequence, its kind and its output register.                 *)
(***************************************************************************)
block_from_inst(inst) ==
    [kind |-> "Block", insts |-> <<inst>>, out |-> output_register(inst)]

subprogram_from_inst(inst) ==
    [kind |-> "SubProgram", insts |-> <<inst>>, out |-> output_register(inst)]

subprogram_from_segment(seg) ==
    [kind |-> "SubProgram", insts |-> seg.insts, out |-> seg.out]

empty_block == [kind |-> "Block", insts |-> <<>>, out |-> None]

\* Option::or
OrElse(a, b) == IF a # None THEN a ELSE b

append_inst(seg, inst) ==
    [seg EXCEPT !.insts = Append(seg.insts, inst),
                !.out   = OrElse(output_register(inst), seg.out)]

append_segment(seg, segment) ==
    [kind  |-> "SubProgram",
     insts |-> seg.insts \o segment.insts,
     out   |-> OrElse(segment.out, seg.out)]

\* appends the instruction as a block of its own at the end of the segment
\* (the method is called by air/mod.rs; its body is not part of the sources)
append_inst_as_block(seg, inst) == append_segment(seg, block_from_inst(inst))

set_output_register(seg, reg) == [seg EXCEPT !.out = Some(reg)]

\* Extend<Instruction>: a block takes the output register of the last
\* instruction, a subprogram keeps its own
extend(seg, iter) ==
    LET all == seg.insts \o iter
    IN  [seg EXCEPT !.insts = all,
                    !.out   = IF seg.kind = "Block" /\ all # <<>>
                              THEN OrElse(output_register(all[Len(all)]), seg.out)
                              ELSE seg.out]

RECURSIVE hint_from(_, _)
hint_from(insts, i) ==
    IF i = 0 THEN None
    ELSE IF insts[i].op = "CMP" /\ insts[i].hint # None THEN insts[i].hint
    ELSE hint_from(insts, i - 1)

\* the most recent flag hint if one exists
latest_flag_hint(seg) == hint_from(seg.insts, Len(seg.insts))

(***************************************************************************)
(* The syntax tree (parse/ast.rs).                                         *)
(***************************************************************************)
Number(val) == [k |-> "Literal", lit |-> "Number", val |-> val]

Boolean(val) == [k |-> "Literal", lit |-> "Boolean", val |-> IF val THEN 1 ELSE 0]

Identifier(id) == [k |-> "Identifier", id |-> id]

Group(expr) == [k |-> "Group", expr |-> expr]

Unary(op, expr) == [k |-> "Unary", op |-> op, expr |-> expr]

Binary(op, left, right) == [k |-> "Binary", op |-> op, left |-> left, right |-> right]

Array(elements) == [k |-> "Array", elements |-> elements]

Index(variable, index) == [k |-> "Index", variable |-> variable, index |-> index]

Let(variable, value) == [k |-> "Let", variable |-> variable, value |-> value]

Mutate(variable, value) == [k |-> "Mutate", variable |-> variable, value |-> value]

Expr(expr) == [k |-> "Expr", expr |-> expr]

If(condition, iff) == [k |-> "If", condition |-> condition, iff |-> iff]

While(condition, body) == [k |-> "While", condition |-> condition, body |-> body]

YieldStmt(expr) == [k |-> "Yield", expr |-> expr]

(***************************************************************************)
(* The generator (air/mod.rs).                                             *)
(***************************************************************************)
WORD_SIZE == 4

\* GenerationState::new; uuid stands for the source of fresh label names
GenerationState(uuid) ==
    [next_reg |-> 0, variables |-> <<>>, pointers |-> <<>>, next_mem_addr |-> 0, uuid |-> uuid]

next_register(st) == [st EXCEPT !.next_reg = st.next_reg + 1]

next_mem_addr(st) == [st EXCEPT !.next_mem_addr = st.next_mem_addr + 4]

\* the maps are sequences of <<name, value>>; a later insert shadows an earlier one
RECURSIVE lookup(_, _, _)
lookup(map, name, i) ==
    IF i = 0 THEN None
    ELSE IF map[i][1] = name THEN Some(map[i][2])
    ELSE lookup(map, name, i - 1)

initialise_variable(st, variable, register) ==
    [st EXCEPT !.variables = Append(st.variables, <<variable, register>>)]

initialise_pointer(st, variable, pointer) ==
    [st EXCEPT !.pointers = Append(st.pointers, <<variable, pointer>>)]

variable_register(st, variable) == lookup(st.variables, variable, Len(st.variables))

deref_pointer(st, variable) == lookup(st.pointers, variable, Len(st.pointers))

\* Uuid::new_v4: a name no earlier draw returned
new_uuid(st) == [st EXCEPT !.uuid = st.uuid + 1]

Label(uuid, suffix) == <<uuid, suffix>>

\* results of lower: Ok(segment), Err(LangError) or a panic
LowerOk(seg, st) == [status |-> "ok", seg |-> seg, st |-> st, err |-> "none"]

LowerErr(err, st) == [status |-> "err", seg |-> empty_block, st |-> st, err |-> err]

LowerPanic(st) == [status |-> "panic", seg |-> empty_block, st |-> st, err |-> "none"]

lower_literal(lit, st) ==
    LowerOk(block_from_inst(CON(st.next_reg, U32(lit.val))), next_register(st))

lower_identifier(ident, st) ==
    LET reg == variable_register(st, ident.id)
    IN  IF reg = None THEN LowerErr("ERROR_UNINITIALISED_VARIABLE", st)
        ELSE LowerOk(set_output_register(empty_block, reg[1]), st)

binary_inst(op, rd, rx, ry) ==
    CASE op = "Plus" -> ADD(rd, rx, ry)
      [] op = "Minus" -> SUB(rd, rx, ry)
      [] op = "Multiply" -> MUL(rd, rx, ry)
      [] op = "Divide" -> DIV(rd, rx, ry)
      [] op = "LessThan" -> CMP(rx, ry, Some("Lt"))
      [] op = "LessThanEq" -> CMP(rx, ry, Some("Le"))
      [] op = "GreaterThan" -> CMP(rx, ry, Some("Gt"))
      [] op = "GreaterThanEq" -> CMP(rx, ry, Some("Ge"))
      [] op = "NotEqual" -> CMP(rx, ry, Some("Ne"))
      [] op = "Equal" -> CMP(rx, ry, Some("Eq"))

IsArithmetic(op) == op \in {"Plus", "Minus", "Multiply", "Divide"}

RECURSIVE lower(_, _), lower_elements(_, _, _, _, _, _), lower_statements(_, _, _, _)

lower_unary(app, st) ==
    LET inner == lower(app.expr, st)
    IN  IF inner.status # "ok" THEN inner
        ELSE IF inner.seg.out = None THEN LowerPanic(inner.st)
        ELSE IF app.op = "Not"
             THEN LowerOk(append_inst(inner.seg, NOT(inner.st.next_reg, inner.seg.out[1])),
                          next_register(inner.st))
        ELSE IF app.op = "Minus"
             THEN LET rx == inner.st.next_reg
                      rd == rx + 1
                  IN  LowerOk(append_inst(append_inst(inner.seg, CON(rx, U32(0))),
                                          SUB(rd, rx, inner.seg.out[1])),
                              next_register(next_register(inner.st)))
        ELSE LowerPanic(inner.st)

lower_binary(app, st) ==
    LET l == lower(app.left, st)
    IN  IF l.status # "ok" THEN l
        ELSE IF l.seg.out = None THEN LowerPanic(l.st)
        ELSE LET r == lower(app.right, l.st)
             IN  IF r.status # "ok" THEN r
                 ELSE IF r.seg.out = None THEN LowerPanic(r.st)
                 \* span_unchecked panics on a SubProgram
                 ELSE IF l.seg.kind # "Block" \/ r.seg.kind # "Block" THEN LowerPanic(r.st)
                 ELSE IF app.op = "Not" THEN LowerPanic(r.st)
                 ELSE LET both == extend(l.seg, r.seg.insts)
                          inst == binary_inst(app.op, r.st.next_reg, l.seg.out[1], r.seg.out[1])
                      IN  LowerOk(append_inst(both, inst),
                                  IF IsArithmetic(app.op) THEN next_register(r.st) ELSE r.st)

lower_elements(elements, i, seg, st, reg_index, offset) ==
    IF i > Len(elements) THEN LowerOk(seg, st)
    ELSE LET val == lower(elements[i], st)
         IN  IF val.status # "ok" THEN val
             ELSE LET s1 == append_segment(seg, val.seg)
                      s2 == append_inst(s1, STR(s1.out[1], reg_index, PostOffset(offset)))
                  IN  lower_elements(elements, i + 1, s2, val.st, reg_index, offset)

lower_array(expr, st) ==
    LET reg_index == st.next_reg
        offset    == st.next_reg + 1
        st1       == next_mem_addr(next_register(next_register(st)))
        s1        == append_inst(empty_block, CON(reg_index, U32(st.next_mem_addr)))
        s2        == append_inst(s1, CON(offset, U32(WORD_SIZE)))
    IN  lower_elements(expr.elements, 1, s2, st1, reg_index, offset)

lower_index(expr, st) ==
    LET base_addr == deref_pointer(st, expr.variable)
    IN  IF base_addr = None THEN LowerErr("ERROR_UNINITIALISED_VARIABLE", st)
        ELSE LET r_base_addr == st.next_reg
                 b0  == subprogram_from_inst(CON(r_base_addr, U32(base_addr[1])))
                 idx == lower(expr.index, next_register(st))
             IN  IF idx.status # "ok" THEN idx
                 ELSE LET b1 == append_segment(b0, idx.seg)
                          r_index_output == b1.out[1]
                          r_word_size == idx.st.next_reg
                          r_index == r_word_size + 1
                          r_data  == r_word_size + 2
                          b2 == append_inst(b1, CON(r_word_size, U32(WORD_SIZE)))
                          b3 == append_inst(b2, MUL(r_index, r_index_output, r_word_size))
                          b4 == append_inst_as_block(b3, LDR(r_data, r_base_addr, Offset(r_index)))
                      IN  LowerOk(set_output_register(b4, r_data),
                                  next_register(next_register(next_register(idx.st))))

lower_yield(stmt, st) ==
    LET e == lower(stmt.expr, st)
    IN  IF e.status # "ok" THEN e
        ELSE IF e.seg.out = None THEN e
        \* the span of the new instruction is span_unchecked of the block
        ELSE IF e.seg.kind # "Block" THEN LowerPanic(e.st)
        ELSE LowerOk(append_inst(e.seg, YLD(e.seg.out[1])), e.st)

\* lowers the statements of a body in order, appending each to seg
lower_statements(stmts, i, seg, st) ==
    IF i > Len(stmts) THEN LowerOk(seg, st)
    ELSE LET s == lower(stmts[i], st)
         IN  IF s.status # "ok" THEN s
             ELSE lower_statements(stmts, i + 1, append_segment(seg, s.seg), s.st)

check_flag(seg) == LET hint == latest_flag_hint(seg) IN IF hint # None THEN hint[1] ELSE "Nv"

lower_if(stmt, st) ==
    LET condition == lower(stmt.condition, st)
    IN  IF condition.status # "ok" THEN condition
        ELSE LET seg0     == subprogram_from_segment(condition.seg)
                 seg1     == append_inst(seg0, CHK(check_flag(seg0)))
                 if_label == Label(condition.st.uuid, "if")
                 branch_if == block_from_inst(BRA(if_label))
                 body     == lower_statements(stmt.iff, 1, subprogram_from_inst(LBL(if_label)),
                                              new_uuid(condition.st))
             IN  IF body.status # "ok" THEN body
                 ELSE LowerOk(append_segment(append_segment(seg1, branch_if), body.seg), body.st)

lower_while(stmt, st) ==
    LET label_uuid == st.uuid
        check_condition_label == Label(label_uuid, "check-condition")
        loop_label  == Label(label_uuid, "loop")
        break_label == Label(label_uuid, "break")
        condition   == lower(stmt.condition, new_uuid(st))
    IN  IF condition.status # "ok" THEN condition
        ELSE LET c0 == extend(block_from_inst(LBL(check_condition_label)), condition.seg.insts)
                 c1 == append_inst(c0, CHK(check_flag(c0)))
                 c2 == append_inst(c1, BRA(loop_label))
                 c3 == append_inst(c2, BRA(break_label))
                 body == lower_statements(stmt.body, 1, subprogram_from_segment(c3), condition.st)
             IN  IF body.status # "ok" THEN body
                 ELSE LowerOk(append_inst_as_block(
                                  append_inst_as_block(body.seg, BRA(check_condition_label)),
                                  LBL(break_label)),
                              body.st)

lower_let(stmt, st) ==
    IF stmt.value.k = "Array"
    THEN lower(stmt.value, initialise_pointer(st, stmt.variable, st.next_mem_addr))
    ELSE LET block == lower(stmt.value, st)
         IN  IF block.status # "ok" THEN block
             ELSE IF block.seg.out = None THEN LowerErr("ERROR_NULL_VARIABLE_EXPRESSION", block.st)
             ELSE LowerOk(block.seg, initialise_variable(block.st, stmt.variable, block.seg.out[1]))

lower_mutate(stmt, st) ==
    LET block == lower(stmt.value, st)
    IN  IF block.status # "ok" THEN block
        ELSE LET reg == variable_register(block.st, stmt.variable)
             IN  IF reg = None THEN LowerErr("ERROR_UNINITIALISED_VARIABLE", block.st)
                 ELSE IF block.seg.out = None
                      THEN LowerErr("ERROR_NULL_VARIABLE_EXPRESSION", block.st)
                 ELSE LowerOk(append_inst(block.seg, MOV(reg[1], block.seg.out[1])), block.st)

lower(node, st) ==
    CASE node.k = "Literal" -> lower_literal(node, st)
      [] node.k = "Identifier" -> lower_identifier(node, st)
      [] node.k = "Group" -> lower(node.expr, st)
      [] node.k = "Unary" -> lower_unary(node, st)
      [] node.k = "Binary" -> lower_binary(node, st)
      [] node.k = "Array" -> lower_array(node, st)
      [] node.k = "Index" -> lower_index(node, st)
      [] node.k = "Expr" -> lower(node.expr, st)
      [] node.k = "Let" -> lower_let(node, st)
      [] node.k = "Mutate" -> lower_mutate(node, st)
      [] node.k = "If" -> lower_if(node, st)
      [] node.k = "While" -> lower_while(node, st)
      [] node.k = "Yield" -> lower_yield(node, st)

\* generate_program followed by the flattening of Pipeline::build
generate_program(st, statements) == lower_statements(statements, 1, empty_block, st)

(***************************************************************************)
(* The programs the machine is run on: the instruction sequences of the    *)
(* machine's own tests (lead-vm/src/tests.rs), further sequences of the    *)
(* same kind, and the sequences the generator builds from source programs. *)
(***************************************************************************)
Src(name, op, a, b) == [name |-> name, op |-> op, a |-> a, b |-> b]

Prog(src, insts) == [source |-> src, insts |-> insts]

L(name) == Label(0, name)

Vals == 0..MaxVal

\* operand words at and around the edges of u32
EdgeWords == <<Zero, U32(1), U32(2), U32(65535), U32(65536), <<57005, 48879>>, MaxWord>>

test_yield == <<CON(0, U32(5)), YLD(0)>>

test_branch_simple ==
    <<BRA(L("label")), CON(0, U32(5)), YLD(0), LBL(L("label")), CON(0, U32(17)), YLD(0)>>

test_store_and_load ==
    <<CON(0, <<57005, 48879>>), CON(1, U32(0)), STR(0, 1, ModeNone), ADD(1, 1, 1),
      LDR(2, 1, ModeNone), YLD(2)>>

test_loop_not_taken ==
    <<CON(0, U32(37)), LBL(L("check-condition")), CON(1, U32(12)), CMP(0, 1, None),
      CHK("Gt"), BRA(L("break")), YLD(1), BRA(L("check-condition")), LBL(L("break")),
      CON(2, U32(48879)), YLD(2)>>

test_loop_and_break ==
    <<CON(0, U32(1)), LBL(L("check-condition")), CON(1, U32(5)), CMP(0, 1, None),
      CHK("Ge"), BRA(L("break")), YLD(0), CON(2, U32(1)), ADD(0, 0, 2),
      BRA(L("check-condition")), LBL(L("break")), CON(3, U32(64)), YLD(3)>>

\* branches forwards and backwards over labels that occur twice
dup_labels ==
    <<BRA(L("b")), LBL(L("a")), CON(0, U32(1)), YLD(0), BRA(L("c")), LBL(L("b")),
      CON(0, U32(2)), YLD(0), BRA(L("a")), LBL(L("a")), LBL(L("b")), LBL(L("c")),
      CON(0, U32(3)), YLD(0), LBL(L("c"))>>

missing_label == <<CON(0, U32(1)), YLD(0), BRA(L("nowhere")), YLD(0)>>

unset_register == <<CON(0, U32(1)), YLD(0), YLD(1)>>

\* a comparison of a and b followed by CHK flag, then a second comparison and CHK
chk_prog(flag, a, b) ==
    <<CON(0, U32(a)), CON(1, U32(b)), CMP(0, 1, None), CHK(flag), YLD(0), YLD(1),
      CMP(1, 0, None), CHK(flag), YLD(1), CHK(flag)>>

arith_prog(op, x, y) ==
    <<CON(0, x), CON(1, y),
      CASE op = "ADD" -> ADD(2, 0, 1) [] op = "SUB" -> SUB(2, 0, 1)
        [] op = "MUL" -> MUL(2, 0, 1) [] op = "DIV" -> DIV(2, 0, 1),
      NOT(3, 2), MOV(4, 3), YLD(2), YLD(4)>>

Modes == {ModeNone, Offset(6), PreOffset(6), PostOffset(6)}

\* two stores, then a load whose address register and offset register are set
mem_prog(v, a, a2, mode, e) ==
    <<CON(0, v), CON(1, U32(a)), STR(0, 1, ModeNone), CON(4, NotW(v)), CON(5, U32(a2)),
      CON(6, U32(4)), STR(4, 5, mode), CON(3, U32(e)), LDR(2, 3, mode), YLD(2), YLD(3),
      LDR(7, 1, ModeNone), YLD(7)>>

\* a PostOffset store and load in range whose write-back passes 2^32
post_offset_wrap ==
    <<CON(0, <<57005, 48879>>), CON(1, U32(4)), CON(6, MaxWord), STR(0, 1, PostOffset(6)),
      YLD(1), LDR(2, 1, PostOffset(6)), YLD(2), YLD(1)>>

\* three consecutive PostOffset stores with offset 4 from base b, then the
\* address register
post_offset_stores(b) ==
    <<CON(0, <<57005, 48879>>), CON(1, U32(b)), CON(6, U32(WORD_SIZE)),
      STR(0, 1, PostOffset(6)), STR(0, 1, PostOffset(6)), STR(0, 1, PostOffset(6)), YLD(1)>>

MachinePrograms ==
    {Prog(Src("yield", "", 0, 0), test_yield),
     Prog(Src("post_offset_wrap", "", 0, 0), post_offset_wrap),
     Prog(Src("branch_simple", "", 0, 0), test_branch_simple),
     Prog(Src("store_and_load", "", 0, 0), test_store_and_load),
     Prog(Src("loop_not_taken", "", 0, 0), test_loop_not_taken),
     Prog(Src("loop_and_break", "", 0, 0), test_loop_and_break),
     Prog(Src("dup_labels", "", 0, 0), dup_labels),
     Prog(Src("missing_label", "", 0, 0), missing_label),
     Prog(Src("unset_register", "", 0, 0), unset_register),
     Prog(Src("empty", "", 0, 0), <<>>)}
    \cup {Prog(Src("chk", f, a, b), chk_prog(f, a, b)) : f \in Flag, a \in Vals, b \in Vals}
    \cup {Prog(Src("arith", op, i, j), arith_prog(op, EdgeWords[i], EdgeWords[j])) :
            op \in {"ADD", "SUB", "MUL", "DIV"},
            i \in 1..Len(EdgeWords), j \in 1..Len(EdgeWords)}
    \cup {Prog(Src("mem", m.kind, a2, e), mem_prog(<<57005, 48879>>, 4, a2, m, e)) :
            m \in Modes, a2 \in {0, 2, 4, 6, MaxMem - 3}, e \in {0, 4}}
    \cup {Prog(Src("post_offset_stores", "", b, 0), post_offset_stores(b)) : b \in {0, 1, 4}}

Comparisons ==
    {"LessThan", "LessThanEq", "GreaterThan", "GreaterThanEq", "NotEqual", "Equal"}

\* if a op b { yield 7; } yield 9;
if_source(op, a, b) ==
    <<If(Binary(op, Number(a), Number(b)), <<YieldStmt(Number(7))>>), YieldStmt(Number(9))>>

\* let r := a; while r < b { yield r; r := r + 1; } yield 64;
while_source(a, b) ==
    <<Let("r", Number(a)),
      While(Binary("LessThan", Identifier("r"), Number(b)),
            <<YieldStmt(Identifier("r")),
              Mutate("r", Binary("Plus", Identifier("r"), Number(1)))>>),
      YieldStmt(Number(64))>>

\* let x := [10, 11, 12 + 1]; let y := x[k]; yield y;
array_source(k) ==
    <<Let("x", Array(<<Number(10), Number(11), Binary("Plus", Number(12), Number(1))>>)),
      Let("y", Index("x", Number(k))), YieldStmt(Identifier("y"))>>

\* let x := [10, 11]; let z := [20]; let y := x[k]; yield y;
two_arrays_source(k) ==
    <<Let("x", Array(<<Number(10), Number(11)>>)),
      Let("z", Array(<<Number(20)>>)),
      Let("y", Index("x", Number(k))), YieldStmt(Identifier("y"))>>

\* yield -x;
minus_source(x) == <<YieldStmt(Unary("Minus", Number(x)))>>

\* if a op b { yield 7; } if b op a { yield 8; } yield 9;
two_ifs_source(op, a, b) ==
    <<If(Binary(op, Number(a), Number(b)), <<YieldStmt(Number(7))>>),
      If(Binary(op, Number(b), Number(a)), <<YieldStmt(Number(8))>>),
      YieldStmt(Number(9))>>

\* if true { yield 1; } yield 9;
if_true_source == <<If(Boolean(TRUE), <<YieldStmt(Number(1))>>), YieldStmt(Number(9))>>

\* let x := 1; let y := x; y := e; yield x; yield y;
alias_source(e) ==
    <<Let("x", Number(1)), Let("y", Identifier("x")), Mutate("y", Number(e)),
      YieldStmt(Identifier("x")), YieldStmt(Identifier("y"))>>

Sources ==
    {Prog(Src("if", op, a, b), if_source(op, a, b)) :
        op \in Comparisons, a \in Vals, b \in Vals}
    \cup {Prog(Src("while", "LessThan", a, b), while_source(a, b)) : a \in Vals, b \in Vals}
    \cup {Prog(Src("while", "LessThan", 1, 5), while_source(1, 5))}
    \cup {Prog(Src("array", "", k, 0), array_source(k)) : k \in 0..2}
    \cup {Prog(Src("two_arrays", "", k, 0), two_arrays_source(k)) : k \in 0..1}
    \cup {Prog(Src("minus", "", x, 0), minus_source(x)) : x \in Vals}
    \cup {Prog(Src("two_ifs", op, a, b), two_ifs_source(op, a, b)) :
            op \in Comparisons, a \in Vals, b \in Vals}
    \cup {Prog(Src("if_true", "", 0, 0), if_true_source)}
    \cup {Prog(Src("alias", "", e, 0), alias_source(e)) : e \in Vals}

\* the sources that build, with the instructions built from them
GeneratedPrograms ==
    {Prog(s.source, generate_program(GenerationState(1), s.insts).seg.insts) :
        s \in {t \in Sources : generate_program(GenerationState(1), t.insts).status = "ok"}}

Programs == MachinePrograms \cup GeneratedPrograms

MemorySizes == {8, MaxMem}

(***************************************************************************)
(* Blocks (lead air/block.rs): the instructions and the output register.   *)
(***************************************************************************)
Block_new(instruction) ==
    [instructions |-> <<instruction>>, output_register |-> output_register(instruction)]

Block_empty == [instructions |-> <<>>, output_register |-> None]

\* append_inst taking the output register of the new instruction only
Block_append_inst_last(b, instruction) ==
    [instructions    |-> Append(b.instructions, instruction),
     output_register |-> output_register(instruction)]

Block_append_inst(b, instruction) ==
    [instructions    |-> Append(b.instructions, instruction),
     output_register |-> OrElse(output_register(instruction), b.output_register)]

\* the output register of the last instruction of insts[1..i] that has one
RECURSIVE rfind_output(_, _)
rfind_output(insts, i) ==
    IF i = 0 THEN None
    ELSE IF output_register(insts[i]) # None THEN output_register(insts[i])
    ELSE rfind_output(insts, i - 1)

Block_from_instructions(insts) ==
    [instructions |-> insts, output_register |-> rfind_output(insts, Len(insts))]

\* reg is an Option<Reg>
Block_set_output_register(b, reg) == [b EXCEPT !.output_register = reg]

\* Extend<Inst> for Block
Block_extend(b, iter) == Block_from_instructions(b.instructions \o iter)

\* a block the generator holds, with the argument of the set_output_register
\* call made on it since its output register was last computed, if any
Held_block(b, set) == [value |-> b, set |-> set]

NoBlock == Held_block(Block_empty, None)


(***************************************************************************)
(* State.                                                                  *)
(***************************************************************************)
VARIABLES
    instructions,     \* Machine.instructions
    registers,        \* Machine.registers: the sparse map, a function on the registers written
    memory,           \* Machine.memory: bytes, indexed from 0
    pc,               \* Machine.pc
    flags,            \* Machine.flags: the u16 mask
    overflow_checks,  \* build profile: whether u32 arithmetic panics on overflow
    vm_thread,        \* worker thread: "running", "finished" or "panicked"
    chan,             \* messages sent and not yet received
    sent,             \* every message sent so far, in order
    ylog,             \* value of the register at each executed YLD, in order
    host,             \* position of Pipeline::run on the main thread
    printed,          \* values the host has printed, in order
    stored,           \* address |-> word, for the words a Plain STR wrote whose bytes
                      \* no later STR has written
    source,           \* the program text the instructions were built from
    pipeline,         \* the Pipeline value the process holds
    sieve,            \* the process-wide sieve: the last prime it found, 0 before the first
    outcome,          \* what the last stage call returned
    done,             \* the stages that returned Ok for the value held, in order
    calls,            \* number of stage calls made on the value
    history,          \* the earlier pipeline runs of the process: text and printed values
    lock,             \* the sieve's mutex: the thread that holds it, 0 when free
    threads,          \* per thread: position in Span::new, the generator, the spans held
    issued,           \* the ids Span::new has returned, in order
    compared,         \* the operand values of the CMP executed last, <<>> before the first
    steps,            \* number of instructions the worker has executed
    block             \* a Block under construction in the generator, with the register
                      \* set_output_register has last forced on it

machine == <<instructions, registers, memory, pc, flags, vm_thread, chan, sent, ylog,
             host, printed, stored, source, compared, steps>>

front == <<pipeline, outcome, done, calls, history>>

registry == <<lock, threads, issued>>

vars == <<instructions, registers, memory, pc, flags, overflow_checks, vm_thread,
          chan, sent, ylog, host, printed, stored, source, compared, steps, front,
          sieve, registry, block>>

(***************************************************************************)
(* The machine (lead-vm/src/lib.rs).  Its methods take and return the      *)
(* record m of the fields they may change; m.out collects the messages     *)
(* sent and m.panicked records a panic, after which nothing else runs.     *)
(***************************************************************************)
Self == [registers |-> registers, memory |-> memory, pc |-> pc, flags |-> flags,
         out |-> <<>>, panicked |-> FALSE]

Panic(m) == [m EXCEPT !.panicked = TRUE]

\* the receiving end lives until Pipeline::run returns or unwinds
ReceiverAlive == host \notin {"returned", "panicked"}

Flags_empty == 1

\* Flags_set storing the bit of the flag as the whole mask
Flags_set_only(mask, flag) == 2 ^ FlagBit(flag)

Flags_set(mask, flag) ==
    LET bit == 2 ^ FlagBit(flag)
    IN  IF (mask \div bit) % 2 = 1 THEN mask ELSE mask + bit

\* Flags_contains with the never-set case taken for Al instead of Nv
Flags_contains_no_al(mask, flag) ==
    IF flag = "Al" THEN FALSE ELSE (mask \div (2 ^ FlagBit(flag))) % 2 = 1

\* Flags_contains comparing the masked bit, in place, with 1
Flags_contains_in_place(mask, flag) ==
    IF flag = "Nv" THEN FALSE
    ELSE ((mask \div (2 ^ FlagBit(flag))) % 2) * (2 ^ FlagBit(flag)) = 1

Flags_contains(mask, flag) ==
    IF flag = "Nv" THEN FALSE ELSE (mask \div (2 ^ FlagBit(flag))) % 2 = 1

advance(m, count) == IF m.panicked THEN m ELSE [m EXCEPT !.pc = m.pc + count]

\* whether get(reg) returns; it panics on a register never written
has(m, reg) == reg \in DOMAIN m.registers

get(m, reg) == m.registers[reg]

save(m, reg, val) ==
    IF m.panicked THEN m
    ELSE [m EXCEPT !.registers = [r \in (DOMAIN m.registers) \cup {reg} |->
                                    IF r = reg THEN val ELSE m.registers[r]]]

\* rd <- the result of a u32 operator; overflow panics when the build checks it
arith(m, rd, res) ==
    IF res.ovf /\ overflow_checks THEN Panic(m) ELSE save(m, rd, res.val)

\* the effective address of a STR or LDR, with the write-back of PreOffset
address(m, rd, mode) ==
    IF mode.kind \in {"None", "PostOffset"}
    THEN IF has(m, rd) THEN [m |-> m, addr |-> get(m, rd)] ELSE [m |-> Panic(m), addr |-> Zero]
    ELSE IF ~(has(m, rd) /\ has(m, mode.r)) THEN [m |-> Panic(m), addr |-> Zero]
    ELSE LET sum == AddW(get(m, rd), get(m, mode.r))
         IN  IF sum.ovf /\ overflow_checks THEN [m |-> Panic(m), addr |-> Zero]
             ELSE IF mode.kind = "PreOffset"
                  THEN [m |-> save(m, rd, sum.val), addr |-> sum.val]
                  ELSE [m |-> m, addr |-> sum.val]

\* PostOffset without its write-back
post_offset_kept(m, rd, mode) == m

\* the write-back of PostOffset
post_offset(m, rd, mode) ==
    IF m.panicked \/ mode.kind # "PostOffset" THEN m
    ELSE IF ~(has(m, rd) /\ has(m, mode.r)) THEN Panic(m)
    ELSE arith(m, rd, AddW(get(m, rd), get(m, mode.r)))

\* whether memory index addr + i exists; memory sizes stay below 2^16, so an
\* address with a nonzero high half is out of range
in_memory(m, addr, i) == addr[1] = 0 /\ addr[2] + i \in DOMAIN m.memory

store(m, rd, value, mode) ==
    LET bytes == to_be_bytes(value)
        a     == address(m, rd, mode)
    IN  IF a.m.panicked THEN a.m
        ELSE LET written == [x \in DOMAIN a.m.memory |->
                               IF a.addr[1] = 0 /\ x - a.addr[2] \in 0..3
                               THEN bytes[x - a.addr[2] + 1] ELSE a.m.memory[x]]
                 m1      == [a.m EXCEPT !.memory = written]
             IN  IF \A i \in 0..3 : in_memory(a.m, a.addr, i)
                 THEN post_offset(m1, rd, mode)
                 ELSE Panic(m1)

\* load returns the machine and the word read
load(m, rd, mode) ==
    LET a == address(m, rd, mode)
    IN  IF a.m.panicked THEN [m |-> a.m, data |-> Zero]
        ELSE IF \A i \in 0..3 : in_memory(a.m, a.addr, i)
             THEN [m    |-> post_offset(a.m, rd, mode),
                   data |-> from_be_bytes([i \in 1..4 |-> a.m.memory[a.addr[2] + i - 1]])]
             ELSE [m |-> Panic(a.m), data |-> Zero]

\* yield_register sending the number of the register in place of its value
yield_register_number(m, reg) ==
    IF ~has(m, reg) THEN Panic(m)
    ELSE IF ReceiverAlive THEN [m EXCEPT !.out = Append(m.out, Yield(U32(reg)))]
    ELSE Panic(m)

yield_register(m, reg) ==
    IF ~has(m, reg) THEN Panic(m)
    ELSE IF ReceiverAlive THEN [m EXCEPT !.out = Append(m.out, Yield(get(m, reg)))]
    ELSE Panic(m)

RECURSIVE find_from(_, _, _)
find_from(insts, label, i) ==
    IF i >= Len(insts) THEN None
    ELSE IF insts[i + 1].op = "LBL" /\ insts[i + 1].label = label THEN Some(i)
    ELSE find_from(insts, label, i + 1)

RECURSIVE rfind_from(_, _, _)
rfind_from(insts, label, i) ==
    IF i = 0 THEN None
    ELSE IF insts[i].op = "LBL" /\ insts[i].label = label THEN Some(i - 1)
    ELSE rfind_from(insts, label, i - 1)

\* find_label returning the last label with the name
find_label_last(label) == rfind_from(instructions, label, Len(instructions))

\* index of the first label with the name, if it exists
find_label(label) == find_from(instructions, label, 0)

branch(m, label) ==
    LET idx == find_label(label)
    IN  IF idx = None THEN Panic(m) ELSE [m EXCEPT !.pc = idx[1]]

set_flags(m, rx, ry) ==
    IF ~(has(m, rx) /\ has(m, ry)) THEN Panic(m)
    ELSE LET x  == get(m, rx)
             y  == get(m, ry)
             f1 == IF x = y THEN Flags_set(m.flags, "Eq") ELSE m.flags
             f2 == IF x # y THEN Flags_set(f1, "Ne") ELSE f1
             f3 == IF LtW(x, y) THEN Flags_set(f2, "Lt") ELSE f2
             f4 == IF LeW(x, y) THEN Flags_set(f3, "Le") ELSE f3
             f5 == IF LtW(y, x) THEN Flags_set(f4, "Gt") ELSE f4
             f6 == IF LeW(y, x) THEN Flags_set(f5, "Ge") ELSE f5
         IN  [m EXCEPT !.flags = f6]

process(m, inst) ==
    CASE inst.op = "ADD" ->
           IF has(m, inst.rx) /\ has(m, inst.ry)
           THEN arith(m, inst.rd, AddW(get(m, inst.rx), get(m, inst.ry))) ELSE Panic(m)
      [] inst.op = "SUB" ->
           IF has(m, inst.rx) /\ has(m, inst.ry)
           THEN arith(m, inst.rd, SubW(get(m, inst.rx), get(m, inst.ry))) ELSE Panic(m)
      [] inst.op = "MUL" ->
           IF has(m, inst.rx) /\ has(m, inst.ry)
           THEN arith(m, inst.rd, MulW(get(m, inst.rx), get(m, inst.ry))) ELSE Panic(m)
      [] inst.op = "DIV" ->
           IF has(m, inst.rx) /\ has(m, inst.ry) /\ get(m, inst.ry) # Zero
           THEN save(m, inst.rd, DivW(get(m, inst.rx), get(m, inst.ry))) ELSE Panic(m)
      [] inst.op = "CMP" -> set_flags(m, inst.rx, inst.ry)
      [] inst.op = "CON" -> save(m, inst.rd, inst.val)
      [] inst.op = "MOV" ->
           IF has(m, inst.rx) THEN save(m, inst.rd, get(m, inst.rx)) ELSE Panic(m)
      [] inst.op = "NOT" ->
           IF has(m, inst.rx) THEN save(m, inst.rd, NotW(get(m, inst.rx))) ELSE Panic(m)
      [] inst.op = "BRA" -> branch(m, inst.label)
      [] inst.op = "YLD" -> yield_register(m, inst.rx)
      [] inst.op = "LBL" -> m
      [] inst.op = "CHK" ->
           IF ~Flags_contains(m.flags, inst.flag) THEN advance(m, 1) ELSE m
      [] inst.op = "STR" ->
           IF has(m, inst.rs) THEN store(m, inst.ra, get(m, inst.rs), inst.mode) ELSE Panic(m)
      [] inst.op = "LDR" ->
           LET l == load(m, inst.ra, inst.mode) IN save(l.m, inst.rd, l.data)

\* instructions.get(pc) finding nothing at the last index
fetch_short == IF pc + 1 < Len(instructions) THEN Some(instructions[pc + 1]) ELSE None

\* instructions.get(pc)
fetch == IF pc < Len(instructions) THEN Some(instructions[pc + 1]) ELSE None

\* one step through the program; cont is false when the program has terminated
step(m) ==
    IF fetch = None THEN [m |-> m, cont |-> FALSE]
    ELSE [m |-> advance(process(m, fetch[1]), 1), cont |-> TRUE]


\* no Pipeline value: the machine was built from instructions directly
NoPipeline == [variant |-> "None", src |-> <<>>, args |-> 0, payload |-> <<>>]

\* no stage call made yet
NoOutcome == [stage |-> "none", status |-> "none", err |-> "none", index |-> 0]

(***************************************************************************)
(* Machine::new, then Pipeline::run up to thread::spawn.                   *)
(***************************************************************************)
Init ==
    /\ \E p \in Programs : instructions = p.insts /\ source = p.source
    /\ \E memory_size \in MemorySizes : memory = [i \in 0..(memory_size - 1) |-> 0]
    /\ overflow_checks \in BOOLEAN
    /\ registers = <<>>
    /\ pc = 0
    /\ flags = Flags_empty
    /\ vm_thread = "running"
    /\ chan = <<>>
    /\ sent = <<>>
    /\ ylog = <<>>
    /\ host = "recv"
    /\ printed = <<>>
    /\ stored = <<>>
    /\ compared = <<>>
    /\ steps = 0
    /\ block = NoBlock
    /\ pipeline = NoPipeline /\ outcome = NoOutcome /\ done = <<>> /\ calls = 0
    /\ history = <<>>
    /\ sieve = 0
    /\ lock = 0 /\ threads = <<>> /\ issued = <<>>

\* the value a YLD at pc is about to read, if it can read it
Yielding ==
    IF fetch # None /\ fetch[1].op = "YLD" /\ fetch[1].rx \in DOMAIN registers
    THEN <<registers[fetch[1].rx]>> ELSE <<>>

\* the record of the Plain stores after the instruction at pc has run
Storing ==
    IF fetch # None /\ fetch[1].op = "STR" /\ has(Self, fetch[1].rs)
    THEN LET a == address(Self, fetch[1].ra, fetch[1].mode)
         IN  IF a.m.panicked \/ a.addr[1] # 0 THEN stored
             ELSE LET e    == a.addr[2]
                      kept == {x \in DOMAIN stored : x - e \notin -3..3}
                      new  == IF fetch[1].mode = ModeNone /\ e + 3 \in DOMAIN memory
                              THEN {e} ELSE {}
                  IN  [x \in kept \cup new |->
                         IF x = e THEN registers[fetch[1].rs] ELSE stored[x]]
    ELSE stored

\* the operands of the last CMP after the instruction at pc has run
Comparing ==
    IF fetch # None /\ fetch[1].op = "CMP" /\ has(Self, fetch[1].rx) /\ has(Self, fetch[1].ry)
    THEN <<registers[fetch[1].rx], registers[fetch[1].ry]>> ELSE compared

\* Machine::run: an iteration of `while self.step() {}`
RunStep ==
    /\ vm_thread = "running"
    /\ step(Self).cont
    /\ LET m == step(Self).m
       IN  /\ registers' = m.registers
           /\ memory' = m.memory
           /\ pc' = m.pc
           /\ flags' = m.flags
           /\ chan' = chan \o m.out
           /\ sent' = sent \o m.out
           /\ vm_thread' = IF m.panicked THEN "panicked" ELSE "running"
    /\ ylog' = ylog \o Yielding
    /\ stored' = Storing
    /\ compared' = Comparing
    /\ steps' = steps + 1
    /\ UNCHANGED <<instructions, overflow_checks, host, printed, source>>
    /\ UNCHANGED <<front, sieve, registry, block>>

\* Machine::run: the loop has ended; send Done and return
RunDone ==
    /\ vm_thread = "running"
    /\ ~step(Self).cont
    /\ IF ReceiverAlive
       THEN chan' = Append(chan, Done) /\ sent' = Append(sent, Done) /\ vm_thread' = "finished"
       ELSE UNCHANGED <<chan, sent>> /\ vm_thread' = "panicked"
    /\ UNCHANGED <<instructions, registers, memory, pc, flags, overflow_checks, ylog,
                   host, printed, stored, source, compared, steps>>
    /\ UNCHANGED <<front, sieve, registry, block>>

\* the sending end is dropped when the worker's closure returns or unwinds
SenderDropped == vm_thread # "running"

\* HostRecv leaving the receive loop after the first message of either kind
HostRecvBreak ==
    /\ host = "recv"
    /\ chan # <<>>
    /\ chan' = Tail(chan)
    /\ printed' = IF Head(chan).type = "Yield" THEN Append(printed, Head(chan).val) ELSE printed
    /\ host' = "join_done"
    /\ UNCHANGED <<instructions, registers, memory, pc, flags, overflow_checks, vm_thread,
                   sent, ylog, stored, source, compared, steps>>
    /\ UNCHANGED <<front, sieve, registry, block>>

\* Pipeline::run: rcvr.recv() returns Ok(msg)
HostRecv ==
    /\ host = "recv"
    /\ chan # <<>>
    /\ chan' = Tail(chan)
    /\ IF Head(chan).type = "Yield"
       THEN printed' = Append(printed, Head(chan).val) /\ host' = "recv"
       ELSE printed' = printed /\ host' = "join_done"
    /\ UNCHANGED <<instructions, registers, memory, pc, flags, overflow_checks, vm_thread,
                   sent, ylog, stored, source, compared, steps>>
    /\ UNCHANGED <<front, sieve, registry, block>>

\* Pipeline::run: rcvr.recv() returns Err: nothing queued and no sender left
HostRecvErr ==
    /\ host = "recv"
    /\ chan = <<>>
    /\ SenderDropped
    /\ host' = "join_err"
    /\ UNCHANGED <<instructions, registers, memory, pc, flags, overflow_checks, vm_thread,
                   chan, sent, ylog, printed, stored, source, compared, steps>>
    /\ UNCHANGED <<front, sieve, registry, block>>

\* vm_thread.join().expect(..): join returns Err when the worker panicked
HostJoin ==
    /\ host \in {"join_done", "join_err"}
    /\ vm_thread # "running"
    /\ host' = IF vm_thread = "panicked" THEN "panicked" ELSE "returned"
    /\ UNCHANGED <<instructions, registers, memory, pc, flags, overflow_checks, vm_thread,
                   chan, sent, ylog, printed, stored, source, compared, steps>>
    /\ UNCHANGED <<front, sieve, registry, block>>

Next == RunStep \/ RunDone \/ HostRecv \/ HostRecvErr \/ HostJoin

Spec == Init /\ [][Next]_vars


(***************************************************************************)
(* Properties.                                                             *)
(***************************************************************************)
Yields(vals) == [i \in 1..Len(vals) |-> Yield(vals[i])]

IsPrefix(p, q) == Len(p) <= Len(q) /\ \A i \in 1..Len(p) : p[i] = q[i]

\* C1: while a run has hit no fatal error the messages sent are one Yield(v)
\* per executed YLD, in execution order, with v the value the register held;
\* when the run has ended they are followed by exactly one Done, and nothing
\* is sent after Done.
C1_YieldsThenDone ==
    /\ [](vm_thread = "running" => sent = Yields(ylog))
    /\ [](vm_thread = "finished" => sent = Yields(ylog) \o <<Done>>)
    /\ [][(\E i \in 1..Len(sent) : sent[i] = Done) => sent' = sent]_vars

C1_Witness ==
    /\ vm_thread = "finished"
    /\ Len(ylog) >= 2
    /\ ylog[1] # ylog[2]
    /\ sent[Len(sent)] = Done

\* C2: under every interleaving of worker and host the host prints the yielded
\* values in the order the YLD instructions executed, each once, and has
\* printed all of them when Pipeline::run returns.
C2_HostPrintsInOrder ==
    /\ IsPrefix(printed, ylog)
    /\ (host = "returned" => printed = ylog)

C2_Witness ==
    /\ host = "returned"
    /\ Len(printed) >= 2
    /\ printed[1] # printed[2]

\* C3: when the worker has stopped with a fatal error before sending Done,
\* Pipeline::run logs and returns normally: the host does not abort.
C3_HostSurvivesWorkerPanic == vm_thread = "panicked" => host # "panicked"


\* the comparison a op b on the operand values
Holds(op, a, b) ==
    CASE op = "LessThan" -> a < b
      [] op = "LessThanEq" -> a <= b
      [] op = "GreaterThan" -> a > b
      [] op = "GreaterThanEq" -> a >= b
      [] op = "NotEqual" -> a # b
      [] op = "Equal" -> a = b

\* C4: for `if a op b { yield 7; } yield 9;` lowered by the generator, the
\* body executes exactly when a op b holds, and execution continues with the
\* statement after the if: a finished run has yielded 7, 9 when it holds and
\* 9 alone when it does not.
C4_IfBodyIffCondition ==
    (source.name = "if" /\ vm_thread = "finished") =>
        ylog = IF Holds(source.op, source.a, source.b) THEN <<U32(7), U32(9)>> ELSE <<U32(9)>>

\* C5: for `let r := a; while r < b { yield r; r := r + 1; } yield 64;`
\* lowered by the generator, the run ends without a fatal error having
\* yielded a, a+1, .., b-1 (one body execution per evaluation of the
\* condition that held) and then 64.
C5_WhileYieldsCountThenExit ==
    (source.name = "while" /\ vm_thread # "running") =>
        /\ vm_thread = "finished"
        /\ ylog = [i \in 1..(IF source.a < source.b THEN source.b - source.a ELSE 0) |->
                     U32(source.a + i - 1)] \o <<U32(64)>>

\* whether the bit of the flag is set in the mask
BitSet(mask, flag) == (mask \div (2 ^ FlagBit(flag))) % 2 = 1

\* C6: executing CHK f at index i leaves pc = i+2 when bit f of the mask is
\* not set and pc = i+1 when it is set; registers, memory and the mask are
\* unchanged.
C6_CHKSkipsWhenFlagClear ==
    [][(RunStep /\ fetch[1].op = "CHK") =>
          /\ pc' = IF BitSet(flags, fetch[1].flag) THEN pc + 1 ELSE pc + 2
          /\ registers' = registers
          /\ memory' = memory
          /\ flags' = flags
          /\ vm_thread' = "running"]_vars

\* the first CHK of the chk program found its flag clear and skipped the YLD
\* after it; the second found it set
C6_Witness ==
    /\ source.name = "chk"
    /\ source.op = "Lt"
    /\ source.a > source.b
    /\ pc = 8
    /\ ylog = <<U32(source.b)>>

\* the lowest index at which LBL label occurs
FirstLBL(label) ==
    CHOOSE i \in 0..(Len(instructions) - 1) :
        /\ instructions[i + 1] = LBL(label)
        /\ \A j \in 0..(i - 1) : instructions[j + 1] # LBL(label)

\* C7: executing BRA L, when L is defined, makes the next instruction the one
\* right after the LBL L of lowest index, before or after the branch, and
\* executes nothing else: registers, memory, flags and messages are unchanged.
C7_BRAToFirstLabel ==
    [][(RunStep /\ fetch[1].op = "BRA" /\ vm_thread' = "running") =>
          /\ pc' = FirstLBL(fetch[1].label) + 1
          /\ registers' = registers
          /\ memory' = memory
          /\ flags' = flags
          /\ sent' = sent]_vars

\* dup_labels has branched forwards to the first b, back to the first a and
\* forwards to the first c
C7_Witness ==
    /\ source.name = "dup_labels"
    /\ vm_thread = "finished"
    /\ ylog = <<U32(2), U32(1), U32(3)>>

\* C8: STR rs, [ra] in Plain mode with the address a in range leaves the bytes
\* of rs at a..a+3, most significant first, and every other byte unchanged; a
\* later LDR from that effective address, no STR having written any of the
\* four bytes in between, puts the stored word in rd.
C8_StoreThenLoad ==
    /\ [][(RunStep /\ fetch[1].op = "STR" /\ fetch[1].mode = ModeNone
             /\ fetch[1].rs \in DOMAIN registers /\ fetch[1].ra \in DOMAIN registers
             /\ registers[fetch[1].ra][1] = 0
             /\ registers[fetch[1].ra][2] + 3 \in DOMAIN memory) =>
            LET a == registers[fetch[1].ra][2]
                v == registers[fetch[1].rs]
            IN  /\ vm_thread' = "running"
                /\ memory' = [x \in DOMAIN memory |->
                                IF x \in a..(a + 3) THEN ByteOf(v, 3 - (x - a)) ELSE memory[x]]]_vars
    /\ [][(RunStep /\ fetch[1].op = "LDR" /\ vm_thread' = "running") =>
            LET e == address(Self, fetch[1].ra, fetch[1].mode).addr
            IN  (e[1] = 0 /\ e[2] \in DOMAIN stored) => registers'[fetch[1].rd] = stored[e[2]]]_vars

\* the mem program has read back, through an Offset load, the word its Plain
\* store put at address 4, after a second store at address 8
C8_Witness ==
    /\ source.name = "mem"
    /\ source.op = "Offset"
    /\ source.a = 4
    /\ source.b = 0
    /\ pc = 9
    /\ 2 \in DOMAIN registers
    /\ registers[2] = <<57005, 48879>>
    /\ memory[4] = 222

\* element k of the array x of the array programs
ElementOfX(name, k) == IF name = "array" THEN <<10, 11, 13>>[k + 1] ELSE <<10, 11>>[k + 1]

\* C9: for an array bound by `let x := [e0, .., e(n-1)]` and an index that
\* evaluates to k < n, x[k] evaluates to the value of ek when the memory is
\* large enough: a finished run of the array programs has yielded element k.
C9_IndexReadsElement ==
    (source.name \in {"array", "two_arrays"} /\ vm_thread = "finished") =>
        ylog = <<U32(ElementOfX(source.name, source.a))>>

\* C10: ADD, SUB and MUL never stop the machine, whatever the operand values,
\* and neither does the lowering of unary minus, CON rz, 0; SUB rd, rz, rx,
\* which leaves (2^32 - x) mod 2^32 in rd.
C10_ArithmeticWraps ==
    /\ (source.name = "arith" /\ source.op \in {"ADD", "SUB", "MUL"}) => vm_thread # "panicked"
    /\ source.name = "minus" =>
          /\ vm_thread # "panicked"
          /\ vm_thread = "finished" =>
                ylog = <<IF source.a = 0 THEN Zero ELSE <<65535, 65536 - source.a>> >>


\* Machine.vm_flags.memory_size: the length of the memory vector
memory_size == Cardinality(DOMAIN memory)

\* the STR or LDR at pc reads registers that are set and its address sum, if
\* it has one, is computed
Addressed ==
    LET i == fetch[1]
    IN  /\ i.op = "STR" => has(Self, i.rs)
        /\ has(Self, i.ra)
        /\ i.mode # ModeNone => has(Self, i.mode.r)
        /\ ~address(Self, i.ra, i.mode).m.panicked

\* the effective address a of the STR or LDR at pc satisfies a+4 <= memory_size
InRange ==
    LET a == address(Self, fetch[1].ra, fetch[1].mode).addr
    IN  a[1] = 0 /\ a[2] + 4 <= memory_size

\* C11: a STR or LDR whose effective address a has a+4 > memory_size stops
\* the machine with a fatal error and every STR or LDR with a+4 <= memory_size
\* succeeds; after a fatal error no instruction executes and no Done is sent.
C11_AccessFatalIffOutOfRange ==
    /\ [][(RunStep /\ fetch[1].op \in {"STR", "LDR"} /\ Addressed) =>
             (vm_thread' = "panicked" <=> ~InRange)]_vars
    /\ [][vm_thread = "panicked" =>
             /\ vm_thread' = "panicked"
             /\ <<pc, registers, memory, flags, sent, ylog>>' =
                  <<pc, registers, memory, flags, sent, ylog>>]_vars
    /\ [](vm_thread = "panicked" => \A i \in 1..Len(sent) : sent[i] # Done)



(***************************************************************************)
(* u64 values, held as eight bytes, least significant first, so that the   *)
(* width of a span id is kept exactly.                                     *)
(***************************************************************************)
U64(n) == [i \in 1..8 |-> IF i <= 4 THEN (n \div (256 ^ (i - 1))) % 256 ELSE 0]

\* the sum of the byte products a[i] * b[j] with i + j = k (bytes counted from 0)
RECURSIVE ColSum(_, _, _, _)
ColSum(a, b, k, i) ==
    IF i > 7 THEN 0
    ELSE (IF k - i \in 0..7 THEN a[i + 1] * b[k - i + 1] ELSE 0) + ColSum(a, b, k, i + 1)

\* bytes k..15 of the 128-bit product
RECURSIVE MulCarry(_, _, _, _)
MulCarry(a, b, k, carry) ==
    IF k = 16 THEN <<>>
    ELSE LET t == carry + ColSum(a, b, k, 0)
         IN  <<t % 256>> \o MulCarry(a, b, k + 1, t \div 256)

\* a * b on u64: the wrapped product and whether it overflowed
MulU64(a, b) ==
    LET p == MulCarry(a, b, 0, 0)
    IN  [val |-> SubSeq(p, 1, 8), ovf |-> \E i \in 9..16 : p[i] # 0]

\* a + d on u64 for a small d
RECURSIVE AddCarry(_, _, _)
AddCarry(a, i, carry) ==
    IF i > 8 THEN <<carry>>
    ELSE <<(a[i] + carry) % 256>> \o AddCarry(a, i + 1, (a[i] + carry) \div 256)

AddU64(a, d) ==
    LET p == AddCarry(a, 1, d)
    IN  [val |-> SubSeq(p, 1, 8), ovf |-> p[9] # 0]

\* a mod p for a small p
RECURSIVE ModFrom(_, _, _, _)
ModFrom(a, p, i, r) == IF i = 0 THEN r ELSE ModFrom(a, p, i - 1, (r * 256 + a[i]) % p)

ModU64(a, p) == ModFrom(a, p, 8, 0)

(***************************************************************************)
(* The span registry (lead lex/span.rs).  The process-wide sieve is held   *)
(* as the last prime it has found, 0 before the first; its list is the     *)
(* primes up to that one.                                                  *)
(***************************************************************************)
Min(x, y) == IF x <= y THEN x ELSE y

Max(x, y) == IF x >= y THEN x ELSE y

\* the integer square root of n, known to lie in lo..hi
RECURSIVE IsqrtIn(_, _, _)
IsqrtIn(n, lo, hi) ==
    IF lo = hi THEN lo
    ELSE LET mid == (lo + hi + 1) \div 2
         IN  IF mid * mid <= n THEN IsqrtIn(n, mid, hi) ELSE IsqrtIn(n, lo, mid - 1)

Isqrt(n) == IsqrtIn(n, 0, Min(n, 46340))

IsPrime(n) == n >= 2 /\ \A d \in 2..Isqrt(n) : n % d # 0

\* Sieve::expand on the sieve whose last prime is sv (0 when it has none):
\* the next prime is appended to the list
RECURSIVE expand(_)
expand(sv) == IF IsPrime(sv + 1) THEN sv + 1 ELSE expand(sv + 1)

NoSpan == [id |-> U64(0), span |-> <<0, 0>>]

\* Span::new on the sieve sv, with the lock held from generator() to next():
\* generator() starts at the end of the list, so next() expands the sieve and
\* returns the new prime
Span_new(sv, lo, hi) ==
    IF lo > hi THEN [panicked |-> TRUE, span |-> NoSpan, sieve |-> sv]
    ELSE LET prime == expand(sv)
         IN  [panicked |-> FALSE, span |-> [id |-> U64(prime), span |-> <<lo, hi>>],
              sieve |-> prime]

join_spans(a, b) == <<Min(a[1], b[1]), Max(a[2], b[2])>>

with_id(span, id) ==
    IF span[1] > span[2] THEN [panicked |-> TRUE, span |-> NoSpan]
    ELSE [panicked |-> FALSE, span |-> [id |-> id, span |-> span]]

\* a.id * b.id is the plain u64 operator: it panics on overflow when the build
\* checks it and wraps otherwise
superspan(a, b) ==
    LET id == MulU64(a.id, b.id)
    IN  IF id.ovf /\ overflow_checks THEN [panicked |-> TRUE, span |-> NoSpan]
        ELSE with_id(join_spans(a.span, b.span), id.val)

\* the product of the ids of spans[i..], with whether a multiplication overflowed
RECURSIVE product(_, _, _)
product(spans, i, acc) ==
    IF i > Len(spans) THEN acc
    ELSE LET m == MulU64(acc.val, spans[i].id)
         IN  product(spans, i + 1, [val |-> m.val, ovf |-> acc.ovf \/ m.ovf])

RECURSIVE fold_bounds(_, _, _)
fold_bounds(spans, i, acc) ==
    IF i > Len(spans) THEN acc
    ELSE fold_bounds(spans, i + 1, <<Min(acc[1], spans[i].span[1]), Max(acc[2], spans[i].span[2])>>)

together(spans) ==
    LET id == product(spans, 1, [val |-> U64(1), ovf |-> FALSE])
    IN  IF id.ovf /\ overflow_checks THEN [panicked |-> TRUE, span |-> NoSpan]
        ELSE [panicked |-> FALSE,
              span |-> [id |-> id.val, span |-> fold_bounds(spans, 1, spans[1].span)]]

\* Span::join: the bounds grow, the id stays
join(self, other) == [self EXCEPT !.span = join_spans(self.span, other.span)]

\* disjoint only with a gap between the two
is_disjoint_strict(self, other) == self.span[2] < other.span[1] \/ other.span[2] < self.span[1]

is_disjoint(self, other) == self.span[2] <= other.span[1] \/ other.span[2] <= self.span[1]

overlaps(self, other) == ~is_disjoint(self, other)

is_superset(self, other) == self.span[1] <= other.span[1] /\ other.span[2] <= self.span[2]

\* primes::factors_uniq of the id, among the primes the sieve sv has found
composing_ids(self, sv) == {p \in 2..sv : IsPrime(p) /\ ModU64(self.id, p) = 0}


(***************************************************************************)
(* Tokens and the lexer (lead lex/token.rs, lex/mod.rs).  A source text is *)
(* a sequence of one-character strings, an identifier name the sequence of *)
(* its characters.  The texts have no character literals and no comments.  *)
(***************************************************************************)
\* a token: its type, the payload of the type (name or number) and its span
Tok(ty, name, num, span) == [ty |-> ty, name |-> name, num |-> num, span |-> span]

\* Token::token_type: the type with its payload
token_type(tok) == <<tok.ty, tok.name, tok.num>>

TokenType(ty) == <<ty, <<>>, U64(0)>>

Digits == {"0", "1", "2", "3", "4", "5", "6", "7", "8", "9"}

Letters ==
    {"a", "b", "c", "d", "e", "f", "g", "h", "i", "j", "k", "l", "m", "n", "o", "p", "q",
     "r", "s", "t", "u", "v", "w", "x", "y", "z",
     "A", "B", "C", "D", "E", "F", "G", "H", "I", "J", "K", "L", "M", "N", "O", "P", "Q",
     "R", "S", "T", "U", "V", "W", "X", "Y", "Z"}

Whitespace == {" ", "\n", "\t", "\r"}

to_digit(ch) ==
    CASE ch = "0" -> 0 [] ch = "1" -> 1 [] ch = "2" -> 2 [] ch = "3" -> 3 [] ch = "4" -> 4
      [] ch = "5" -> 5 [] ch = "6" -> 6 [] ch = "7" -> 7 [] ch = "8" -> 8 [] ch = "9" -> 9

KW_true == <<"t", "r", "u", "e">>

KW_false == <<"f", "a", "l", "s", "e">>

KW_let == <<"l", "e", "t">>

KW_if == <<"i", "f">>

KW_for == <<"f", "o", "r">>

KW_while == <<"w", "h", "i", "l", "e">>

KW_yield == <<"y", "i", "e", "l", "d">>

KEYWORDS == {KW_true, KW_false, KW_let, KW_if, KW_for, KW_while, KW_yield}

\* the type Token::from gives the string, if it gives one
lexeme_type(string) ==
    CASE string = <<"(">> -> Some("LeftParen")
      [] string = <<")">> -> Some("RightParen")
      [] string = <<"{">> -> Some("LeftBrace")
      [] string = <<"}">> -> Some("RightBrace")
      [] string = <<"[">> -> Some("LeftSquare")
      [] string = <<"]">> -> Some("RightSquare")
      [] string = <<",">> -> Some("Comma")
      [] string = <<".">> -> Some("Dot")
      [] string = <<"-">> -> Some("Minus")
      [] string = <<"+">> -> Some("Plus")
      [] string = <<"*">> -> Some("Star")
      [] string = <<";">> -> Some("Semicolon")
      [] string = <<"!">> -> Some("Bang")
      [] string = <<"<">> -> Some("LessThan")
      [] string = <<">">> -> Some("GreaterThan")
      [] string = <<":">> -> Some("Colon")
      [] string = <<"!", "=">> -> Some("BangEq")
      [] string = <<"=", "=">> -> Some("EqEq")
      [] string = <<"<", "=">> -> Some("LessThanEq")
      [] string = <<">", "=">> -> Some("GreaterThanEq")
      [] string = <<":", "=">> -> Some("Assign")
      [] string = <<"/">> -> Some("Slash")
      [] OTHER -> None

\* Token::new
Token_new(sv, ty, start, length) ==
    LET sp == Span_new(sv, start, start + length)
    IN  [tok |-> Tok(ty[1], ty[2], ty[3], sp.span), sieve |-> sp.sieve]

\* Token::from: both the token and the error carry a new span
Token_from(sv, string, start) ==
    LET ty == lexeme_type(string)
        sp == Span_new(sv, start, start + Len(string))
    IN  [ok |-> ty # None,
         tok |-> Tok(IF ty # None THEN ty[1] ELSE "EOF", <<>>, U64(0), sp.span),
         sieve |-> sp.sieve]

from_bool(sv, b, start) ==
    LET sp == Span_new(sv, start, start + (IF b THEN 4 ELSE 5))
    IN  [tok |-> Tok("Bool", <<>>, U64(IF b THEN 1 ELSE 0), sp.span), sieve |-> sp.sieve]

from_num(sv, n, start, stop) ==
    LET sp == Span_new(sv, start, stop)
    IN  [tok |-> Tok("Number", <<>>, n, sp.span), sieve |-> sp.sieve]

from_keyword(sv, string, start) ==
    IF string = KW_true THEN from_bool(sv, TRUE, start)
    ELSE IF string = KW_false THEN from_bool(sv, FALSE, start)
    ELSE LET ty == CASE string = KW_if -> "If" [] string = KW_let -> "Let"
                     [] string = KW_for -> "For" [] string = KW_while -> "While"
                     [] string = KW_yield -> "Yield"
             sp == Span_new(sv, start, start + Len(string))
         IN  [tok |-> Tok(ty, <<>>, U64(0), sp.span), sieve |-> sp.sieve]

\* the index of the first character at or after index that is not in the class
RECURSIVE take_while(_, _, _)
take_while(src, index, class) ==
    IF index < Len(src) /\ src[index + 1] \in class THEN take_while(src, index + 1, class)
    ELSE index

skip_trivia(src, index) == take_while(src, index, Whitespace)

skip_spaces(src, index) == take_while(src, index, {" "})

is_valid_identifier_char == Letters \cup Digits \cup {"_"}

\* the value of the decimal digits src[i+1..stop], with whether it passes 2^64 - 1
RECURSIVE from_str_radix(_, _, _, _)
from_str_radix(src, i, stop, acc) ==
    IF acc.ovf \/ i >= stop THEN acc
    ELSE LET m == MulU64(acc.val, U64(10))
             a == AddU64(m.val, to_digit(src[i + 1]))
         IN  from_str_radix(src, i + 1, stop, [val |-> a.val, ovf |-> acc.ovf \/ m.ovf \/ a.ovf])

\* parse_u64 on decimal digits: Err when the value does not fit u64
parse_u64(src, index) ==
    LET stop == take_while(src, index, Digits)
        n    == from_str_radix(src, index, stop, [val |-> U64(0), ovf |-> FALSE])
    IN  [ok |-> ~n.ovf, val |-> n.val, index |-> stop]

LexOk(tokens, sv) == [status |-> "ok", tokens |-> tokens, sieve |-> sv, err |-> "none"]

LexErr(err, sv) == [status |-> "err", tokens |-> <<>>, sieve |-> sv, err |-> err]

SingleChars == {"(", ")", "{", "}", "[", "]", ",", ".", "-", "+", "*", ";", "/"}

\* Lexer::lex; self holds the lexer's index, the sieve and the tokens pushed
\* to buf so far
RECURSIVE lex(_, _)
lex(src, self) ==
    LET index == skip_trivia(src, self.index)
        \* the placeholder token takes a span of its own on every call
        eof   == Token_new(self.sieve, TokenType("EOF"), index, 0)
        sv    == eof.sieve
        start == index
        next(i, t) == lex(src, [index |-> i, sieve |-> t.sieve, buf |-> Append(self.buf, t.tok)])
    IN  IF index >= Len(src) THEN LexOk(Append(self.buf, eof.tok), sv)
        ELSE LET ch == src[index + 1]
             IN  CASE ch = " " ->
                        lex(src, [index |-> skip_spaces(src, index), sieve |-> sv, buf |-> self.buf])
                   [] ch \in SingleChars -> next(index + 1, Token_from(sv, <<ch>>, index + 1))
                   [] ch \in {"!", "<", ">", ":", "="} ->
                        LET string == IF index + 2 <= Len(src) /\ src[index + 2] = "="
                                      THEN <<ch, "=">> ELSE <<ch>>
                            t == Token_from(sv, string, index + Len(string))
                        IN  IF t.ok THEN next(index + Len(string), t)
                            ELSE LexErr("InvalidLexeme", t.sieve)
                   [] ch \in Digits ->
                        LET n == parse_u64(src, index)
                        IN  IF n.ok THEN next(n.index, from_num(sv, n.val, start, n.index))
                            ELSE LexErr("ERROR_INVALID_NUMBER_LITERAL", sv)
                   [] ch \in Letters ->
                        LET stop == take_while(src, index, is_valid_identifier_char)
                            name == SubSeq(src, index + 1, stop)
                        IN  next(stop, IF name \in KEYWORDS THEN from_keyword(sv, name, start)
                                       ELSE Token_new(sv, <<"Identifier", name, U64(0)>>,
                                                      start, Len(name)))
                   [] OTHER -> LexErr("ERROR_INVALID_LEXEME", sv)

\* Lexer::new(src).run()
Lexer_run(src, sv) == lex(src, [index |-> 0, sieve |-> sv, buf |-> <<>>])


(***************************************************************************)
(* The parser (lead parse/mod.rs).  A method takes the token slice input   *)
(* and self, the parser's index with the sieve, and returns a result       *)
(* record: Ok with the value, its span and the parser after the call, Err  *)
(* with the kind of LangError, or a panic.                                 *)
(***************************************************************************)
POk(val, span, self) ==
    [status |-> "ok", val |-> val, span |-> span, self |-> self, err |-> "none"]

PErr(err, self) ==
    [status |-> "err", val |-> <<>>, span |-> NoSpan, self |-> self, err |-> err]

PPanic(self) ==
    [status |-> "panic", val |-> <<>>, span |-> NoSpan, self |-> self, err |-> "none"]

\* the operator `?`: an Err, and a panic, ends the method; Ok goes on with the value
Try(r, K(_)) == IF r.status # "ok" THEN r ELSE K(r)

\* .unwrap() of a Result
unwrap(r, K(_)) == IF r.status # "ok" THEN PPanic(r.self) ELSE K(r)

\* Ok(val) with a span that superspan or together built, if building it did not panic
Spanned(span, val, self) ==
    IF span.panicked THEN PPanic(self) ELSE POk(val, span.span, self)

LangParser_new(sv) == [index |-> 0, sieve |-> sv]

\* Span::new called by the parser: the span takes the next prime of the sieve
new_span(self, lo, hi) == [self EXCEPT !.sieve = Span_new(self.sieve, lo, hi).sieve]

\* Parser::peek_one
Parser_peek_one(input, self) ==
    IF self.index < Len(input) THEN Some(input[self.index + 1]) ELSE None

\* Parser::peek_many
peek_many(input, self, count) ==
    IF self.index + count <= Len(input)
    THEN Some(SubSeq(input, self.index + 1, self.index + count)) ELSE None

\* Parser::advance_one: the parser after the token, if there is one
advance_one(input, self) ==
    IF self.index < Len(input) THEN [self EXCEPT !.index = self.index + 1] ELSE self

\* LangParser::is_eof
is_eof(input, self) ==
    Parser_peek_one(input, self) = None \/ Parser_peek_one(input, self)[1].ty = "EOF"

\* LangParser::is_line_end
is_line_end(input, self) ==
    Parser_peek_one(input, self) # None /\ Parser_peek_one(input, self)[1].ty = "EOF"

\* LangParser::consume
consume(input, self, ty) ==
    IF Parser_peek_one(input, self) = None
    THEN PErr("UnexpectedEndOfFile", new_span(self, self.index, self.index))
    ELSE IF token_type(input[self.index + 1]) = ty
         THEN POk(input[self.index + 1], input[self.index + 1].span, advance_one(input, self))
    ELSE PErr("ExpectedToken", new_span(self, self.index, self.index + 1))

\* Option::ok_or with UnexpectedEndOfFile: s1 is the parser after the error's span is built
ok_or(tok, s1) ==
    IF tok = None THEN PErr("UnexpectedEndOfFile", s1) ELSE POk(tok[1], tok[1].span, s1)

\* LangParser::peek_one: ok_or builds the error, and its span, on every call
peek_one(input, self) ==
    ok_or(Parser_peek_one(input, self), new_span(self, self.index, self.index + 1))

\* the last of the tokens peek_many returned
nth(toks, count) == IF toks = None THEN None ELSE Some(toks[1][count])

\* LangParser::peek_nth
peek_nth(input, self, count) ==
    ok_or(nth(peek_many(input, self, count), count),
          new_span(self, self.index, self.index + 1))

\* (*n).try_into(): the u64 as an i32, if it is at most 2^31 - 1
try_into_i32(n) ==
    IF n[5] = 0 /\ n[6] = 0 /\ n[7] = 0 /\ n[8] = 0 /\ n[4] < 128
    THEN Some(n[1] + 256 * n[2] + 65536 * n[3] + 16777216 * n[4]) ELSE None

\* Literal::from_number(tok, (*n).try_into().unwrap())
from_number(tok, val, self) ==
    IF val = None THEN PPanic(self) ELSE POk(Number(val[1]), tok.span, self)

\* LangParser::parse_literal
parse_literal(input, self) ==
    Try(peek_one(input, self), LAMBDA tok :
        CASE tok.val.ty = "Bool" ->
               POk(Boolean(tok.val.num = U64(1)), tok.span, advance_one(input, tok.self))
          [] tok.val.ty = "Number" ->
               from_number(tok.val, try_into_i32(tok.val.num), advance_one(input, tok.self))
          [] OTHER -> PErr("InvalidLiteral", tok.self))

\* LangParser::parse_unary_operator
parse_unary_operator(input, self) ==
    Try(peek_one(input, self), LAMBDA tok :
        CASE tok.val.ty = "Bang" -> POk("Not", NoSpan, advance_one(input, tok.self))
          [] tok.val.ty = "Minus" -> POk("Minus", NoSpan, advance_one(input, tok.self))
          [] OTHER -> PErr("InvalidUnaryOperator", tok.self))

BinaryOperators ==
    [Minus |-> "Minus", Plus |-> "Plus", Slash |-> "Divide", Star |-> "Multiply",
     LessThan |-> "LessThan", GreaterThan |-> "GreaterThan", LessThanEq |-> "LessThanEq",
     GreaterThanEq |-> "GreaterThanEq", EqEq |-> "Equal", BangEq |-> "NotEqual"]

\* LangParser::parse_binary_operator
parse_binary_operator(input, self) ==
    unwrap(peek_one(input, self), LAMBDA tok :
        IF tok.val.ty \in DOMAIN BinaryOperators
        THEN POk(BinaryOperators[tok.val.ty], NoSpan, advance_one(input, tok.self))
        ELSE PErr("InvalidBinaryOperator", tok.self))

RECURSIVE parse_statement_loop(_, _, _)
RECURSIVE parse_expr(_, _)

\* the binary operators a partial expression continues with, and `!`
PartialOperators == DOMAIN BinaryOperators \cup {"Bang"}

\* Application::from_binary
from_binary(op, left, right) ==
    Spanned(superspan(left.span, right.span), Binary(op, left.val, right.val), right.self)

\* LangParser::parse_partial; left is the expression parsed so far with the parser after it
parse_partial(input, left) ==
    IF is_eof(input, left.self) \/ is_line_end(input, left.self) THEN left
    ELSE Try(peek_one(input, left.self), LAMBDA tok :
             IF tok.val.ty \in PartialOperators
             THEN Try(parse_binary_operator(input, tok.self), LAMBDA op :
                  Try(parse_expr(input, op.self), LAMBDA right :
                  from_binary(op.val, left, right)))
             ELSE POk(left.val, left.span, tok.self))

\* LangParser::parse_array: the loop, from its test
RECURSIVE parse_array_loop(_, _, _)
parse_array_loop(input, self, elements) ==
    Try(peek_one(input, self), LAMBDA p :
        IF p.val.ty = "RightSquare" THEN POk(elements, NoSpan, p.self)
        ELSE Try(peek_one(input, p.self), LAMBDA q :
             Try(IF q.val.ty = "Comma" THEN consume(input, q.self, TokenType("Comma")) ELSE q,
                 LAMBDA c :
             Try(parse_expr(input, c.self), LAMBDA e :
             parse_array_loop(input, e.self, Append(elements, e.val))))))

\* LangParser::parse_array
parse_array(input, self) ==
    Try(consume(input, self, TokenType("LeftSquare")), LAMBDA left_square :
    Try(parse_array_loop(input, left_square.self, <<>>), LAMBDA elements :
    Try(consume(input, elements.self, TokenType("RightSquare")), LAMBDA right_square :
    Spanned(superspan(left_square.span, right_square.span), Array(elements.val),
            right_square.self))))

\* parse_expr, the arm of the unary operators, with Application::from_unary
parse_expr_unary(input, self) ==
    unwrap(peek_one(input, self), LAMBDA tok :
    Try(parse_unary_operator(input, tok.self), LAMBDA op :
    Try(parse_expr(input, op.self), LAMBDA expr :
    Spanned(superspan(tok.span, expr.span), Unary(op.val, expr.val), expr.self))))

\* parse_expr, the arm of the grouping; lp is the span of the `(`
parse_expr_group(input, self, lp) ==
    Try(parse_expr(input, advance_one(input, self)), LAMBDA expr :
    Try(peek_one(input, expr.self), LAMBDA p :
        IF p.val.ty = "RightParen"
        THEN POk(Group(expr.val), join(lp, p.span), advance_one(input, p.self))
        ELSE Try(peek_one(input, p.self), LAMBDA q : PErr("UnmatchedDelimiter", q.self))))

\* parse_expr, the arm of the identifier and the array index
parse_expr_identifier(input, self, identifier) ==
    Try(peek_one(input, advance_one(input, self)), LAMBDA p :
        IF p.val.ty = "LeftSquare"
        THEN Try(consume(input, p.self, TokenType("LeftSquare")), LAMBDA ls :
             Try(parse_expr(input, ls.self), LAMBDA index :
             Try(consume(input, index.self, TokenType("RightSquare")), LAMBDA rs :
             Spanned(superspan(identifier.span, rs.span),
                     Index(identifier.name, index.val), rs.self))))
        ELSE POk(Identifier(identifier.name), identifier.span, p.self))

\* LangParser::parse_expr
parse_expr(input, self) ==
    IF is_eof(input, self)
    THEN IF self.index = 0 THEN PPanic(self)
         ELSE PErr("UnexpectedEndOfFile", new_span(self, self.index - 1, self.index))
    ELSE Try(peek_one(input, self), LAMBDA p :
         Try(CASE p.val.ty \in {"Number", "Bool", "Char"} ->
                    Try(parse_literal(input, p.self), LAMBDA left : parse_partial(input, left))
               [] p.val.ty \in {"Minus", "Bang"} -> parse_expr_unary(input, p.self)
               [] p.val.ty = "LeftParen" -> parse_expr_group(input, p.self, p.span)
               [] p.val.ty = "Identifier" -> parse_expr_identifier(input, p.self, p.val)
               [] p.val.ty = "LeftSquare" -> parse_array(input, p.self)
               [] OTHER -> PPanic(p.self),
             LAMBDA expr : parse_partial(input, expr)))

\* LangParser::parse_yield
parse_yield(input, self) ==
    Try(consume(input, self, TokenType("Yield")), LAMBDA y :
    Try(parse_expr(input, y.self), LAMBDA expr :
    Try(consume(input, expr.self, TokenType("Semicolon")), LAMBDA semi :
    POk(YieldStmt(expr.val), NoSpan, semi.self))))

\* LangParser::parse_assign, from the ok_or: variable is the token advance_one returned
\* and s1 the parser after the call of Span::new
parse_assign_from(input, variable, s1) ==
    IF variable = None THEN PErr("UnexpectedEndOfFile", s1)
    ELSE Try(consume(input, s1, TokenType("Assign")), LAMBDA assign :
         Try(parse_expr(input, assign.self), LAMBDA value :
         Try(consume(input, value.self, TokenType("Semicolon")), LAMBDA semi :
         POk(<<variable[1], value.val>>, value.span, semi.self))))

\* LangParser::parse_assign: the variable's token and the value
parse_assign(input, self) ==
    IF advance_one(input, self).index = 0 THEN PPanic(self)
    ELSE parse_assign_from(input, Parser_peek_one(input, self),
             new_span(advance_one(input, self), advance_one(input, self).index - 1,
                      advance_one(input, self).index))

\* LangParser::parse_let, with Let::from
parse_let(input, self) ==
    Try(consume(input, self, TokenType("Let")), LAMBDA start :
    Try(parse_assign(input, start.self), LAMBDA a :
        IF a.val[1].ty # "Identifier" THEN PErr("InvalidIdentifier", a.self)
        ELSE Spanned(superspan(start.span, a.span), Let(a.val[1].name, a.val[2]), a.self)))

\* LangParser::parse_mutate, with Mutate::from
parse_mutate(input, self) ==
    Try(parse_assign(input, self), LAMBDA a :
        IF a.val[1].ty # "Identifier" THEN PPanic(a.self)
        ELSE Spanned(superspan(a.val[1].span, a.span), Mutate(a.val[1].name, a.val[2]),
                     a.self))

\* LangParser::parse_statement
parse_statement(input, self, buf) ==
    IF is_eof(input, self) THEN POk(buf, NoSpan, self)
    ELSE parse_statement_loop(input, self, buf)

\* LangParser::parse_wif; start is the token advance_one returned
parse_wif(input, self, start) ==
    Try(parse_expr(input, advance_one(input, self)), LAMBDA condition :
    Try(consume(input, condition.self, TokenType("LeftBrace")), LAMBDA lb :
    Try(parse_statement(input, lb.self, <<>>), LAMBDA body :
    Try(consume(input, body.self, TokenType("RightBrace")), LAMBDA rb :
    Spanned(together(<<start.span, condition.span, lb.span, rb.span>>),
            IF start.ty = "If" THEN If(condition.val, body.val)
            ELSE While(condition.val, body.val),
            rb.self)))))

\* Statement::Expr(self.parse_expr()?)
parse_expr_statement(input, self) ==
    Try(parse_expr(input, self), LAMBDA e : POk(Expr(e.val), e.span, e.self))

\* parse_statement: the statement the token tok starts, after the peek s1
statement_of(input, s1, tok) ==
    CASE tok.ty = "Identifier" ->
           Try(peek_nth(input, s1, 2), LAMBDA n :
               IF n.val.ty = "Assign" THEN parse_mutate(input, n.self)
               ELSE parse_expr_statement(input, n.self))
      [] tok.ty \in {"Number", "Bool", "Char", "LeftParen", "Bang", "Minus"} ->
           parse_expr_statement(input, s1)
      [] tok.ty = "Let" -> parse_let(input, s1)
      [] tok.ty \in {"While", "If"} -> parse_wif(input, s1, tok)
      [] tok.ty = "Yield" -> parse_yield(input, s1)
      [] OTHER -> Try(peek_one(input, s1), LAMBDA t : PErr("UnexpectedToken", t.self))

\* parse_statement: an iteration of the loop
parse_statement_loop(input, self, buf) ==
    unwrap(peek_one(input, self), LAMBDA p :
        IF p.val.ty \in {"EOF", "RightBrace"} THEN POk(buf, NoSpan, p.self)
        ELSE Try(statement_of(input, p.self, p.val), LAMBDA statement :
             parse_statement_loop(input, statement.self, Append(buf, statement.val))))

(***************************************************************************)
(* The pipeline (leadc/src/pipeline.rs).                                   *)
(***************************************************************************)
Text(src, args) == [variant |-> "Text", src |-> src, args |-> args, payload |-> <<>>]

Tokens(src, args, tokens) ==
    [variant |-> "Tokens", src |-> src, args |-> args, payload |-> tokens]

SyntaxTree(src, args, ast) ==
    [variant |-> "SyntaxTree", src |-> src, args |-> args, payload |-> ast]

IntermediateRepr(src, args, air) ==
    [variant |-> "IntermediateRepr", src |-> src, args |-> args, payload |-> air]

\* what a stage call returns: Ok(pipeline), Err(report) or a panic; sv is the sieve and
\* index the parser's position when the call ends
StageOk(value, sv, index) ==
    [status |-> "ok", value |-> value, err |-> "none", sieve |-> sv, index |-> index]

StageErr(err, sv, index) ==
    [status |-> "err", value |-> NoPipeline, err |-> err, sieve |-> sv, index |-> index]

StagePanic(sv, index) ==
    [status |-> "panic", value |-> NoPipeline, err |-> "none", sieve |-> sv, index |-> index]

PipelineError == {"InvalidLex", "InvalidParse", "InvalidBuild", "InvalidRun"}

\* Pipeline::lex
Pipeline_lex(self, sv) ==
    IF self.variant = "Text"
    THEN LET r == Lexer_run(self.src, sv)
         IN  IF r.status = "ok" THEN StageOk(Tokens(self.src, self.args, r.tokens), r.sieve, 0)
             ELSE StageErr(r.err, r.sieve, 0)
    ELSE StageErr("InvalidLex", sv, 0)

\* Pipeline::parse, run on the tokens the variant holds
parse_tokens(self, sv) ==
    LET r == parse_statement(self.payload, LangParser_new(sv), <<>>)
    IN  CASE r.status = "ok" ->
               StageOk(SyntaxTree(self.src, self.args, r.val), r.self.sieve, r.self.index)
          [] r.status = "err" -> StageErr(r.err, r.self.sieve, r.self.index)
          [] r.status = "panic" -> StagePanic(r.self.sieve, r.self.index)

\* a match whose first arm also takes Text, with no tokens
Pipeline_parse_text(self, sv) ==
    IF self.variant \in {"Tokens", "Text"} THEN parse_tokens(self, sv)
    ELSE StageErr("InvalidParse", sv, 0)

\* Pipeline::parse
Pipeline_parse(self, sv) ==
    IF self.variant = "Tokens" THEN parse_tokens(self, sv)
    ELSE StageErr("InvalidParse", sv, 0)

\* Pipeline::build; uuid stands for the names Uuid::new_v4 will return
Pipeline_build(self, sv, uuid) ==
    IF self.variant = "SyntaxTree"
    THEN LET r == generate_program(GenerationState(uuid), self.payload)
         IN  CASE r.status = "ok" ->
                    StageOk(IntermediateRepr(self.src, self.args, r.seg.insts), sv, 0)
               [] r.status = "err" -> StageErr(r.err, sv, 0)
               [] r.status = "panic" -> StagePanic(sv, 0)
    ELSE StageErr("InvalidBuild", sv, 0)

\* Pipeline::run, up to the match: the worker is spawned on IntermediateRepr only
Pipeline_run(self, sv) ==
    IF self.variant = "IntermediateRepr" THEN StageOk(self, sv, 0)
    ELSE StageErr("InvalidRun", sv, 0)

(***************************************************************************)
(* The source texts the pipeline is run on, as sequences of characters.    *)
(***************************************************************************)
MaxChain == 3

ChainPrimaries == {<<"2">>, <<"x">>}

ChainOperators == {<<"*">>, <<"-">>}

\* the texts p1 op1 p2 ... pn of n primaries
RECURSIVE Chains(_)
Chains(n) ==
    IF n = 1 THEN ChainPrimaries
    ELSE {p \o op \o c : p \in ChainPrimaries, op \in ChainOperators, c \in Chains(n - 1)}

ChainTexts == UNION {Chains(n) : n \in 1..MaxChain}

yield_text(expr) == KW_yield \o <<" ">> \o expr \o <<";">>

\* 1 + 2 * 3
text_bare == <<"1", " ", "+", " ", "2", " ", "*", " ", "3">>

\* 1 + 2; yield 3;
text_expr_stmt == <<"1", " ", "+", " ", "2", ";", " ">> \o yield_text(<<"3">>)

\* x * 2; yield 3;
text_expr_stmt_x == <<"x", " ", "*", " ", "2", ";", " ">> \o yield_text(<<"3">>)

\* yield 1; } yield 2;
text_brace == yield_text(<<"1">>) \o <<" ", "}", " ">> \o yield_text(<<"2">>)

\* yield 2147483648;   and   yield 2147483647;
text_i32(last) == yield_text(<<"2", "1", "4", "7", "4", "8", "3", "6", "4", last>>)

\* yield 99999999999999999999;
text_u64 == yield_text([i \in 1..20 |-> "9"])

\* yield ;
text_no_expr == yield_text(<<>>)

\* yield 1 = 2;
text_lexeme == yield_text(<<"1", " ", "=", " ", "2">>)

\* yield 1+1+1+1+1;
text_long == yield_text(<<"1", "+", "1", "+", "1", "+", "1", "+", "1">>)

\* let x := [1, 2]; yield x[1];
text_array ==
    KW_let \o <<" ", "x", " ", ":", "=", " ", "[", "1", ",", " ", "2", "]", ";", " ">>
        \o yield_text(<<"x", "[", "1", "]">>)

\* if (1) < 2 { let y := !true; yield 7; } yield 9;
text_if ==
    KW_if \o <<" ", "(", "1", ")", " ", "<", " ", "2", " ", "{", " ">>
        \o KW_let \o <<" ", "y", " ", ":", "=", " ", "!">> \o KW_true \o <<";", " ">>
        \o yield_text(<<"7">>) \o <<" ", "}", " ">> \o yield_text(<<"9">>)

\* let r := 0;
\* while r < 0 { yield r; r := r + 1; }
text_while ==
    KW_let \o <<" ", "r", " ", ":", "=", " ", "0", ";", "\n">>
        \o KW_while \o <<" ", "r", " ", "<", " ", "0", " ", "{", " ">>
        \o yield_text(<<"r">>) \o <<" ", "r", " ", ":", "=", " ", "r", " ", "+", " ", "1", ";", " ", "}">>

\* yield 1-2;
text_underflow == yield_text(<<"1", "-", "2">>)

NamedTexts ==
    {text_bare, text_expr_stmt, text_expr_stmt_x, text_brace, text_i32("8"),
     text_i32("7"), text_u64, text_no_expr, text_lexeme, text_long, text_array,
     text_if, text_while, text_underflow, <<>>}

Texts == {yield_text(c) : c \in ChainTexts} \cup NamedTexts

(***************************************************************************)
(* A process that runs pipelines (leadc/src/main.rs, lead-w/src/lib.rs):  *)
(* it holds a Pipeline value and calls stages on it, in any order.  A call *)
(* consumes a clone: the value held is replaced when the call returns Ok   *)
(* and kept otherwise.                                                     *)
(***************************************************************************)
MaxCalls == 6

MaxRuns == 2

\* the spans the process has made before a later run have ids up to the first
\* prime from EarlierPrime on
EarlierPrime == 7129

UuidSeeds == {1, 5}

Outcome(stage, r) == [stage |-> stage, status |-> r.status, err |-> r.err, index |-> r.index]

\* the process is alive and its main thread is not inside Pipeline::run
Callable == host = "idle" /\ outcome.status # "panic" /\ calls < MaxCalls

Returned(stage, r) ==
    /\ pipeline' = IF r.status = "ok" THEN r.value ELSE pipeline
    /\ sieve' = r.sieve
    /\ outcome' = Outcome(stage, r)
    /\ done' = IF r.status = "ok" THEN Append(done, stage) ELSE done
    /\ calls' = calls + 1

\* the process holds the text it has read, with the run arguments
PipelineInitOn(texts) ==
    /\ \E src \in texts, size \in MemorySizes : pipeline = Text(src, size)
    /\ overflow_checks \in BOOLEAN
    /\ sieve = 0
    /\ outcome = NoOutcome /\ done = <<>> /\ calls = 0 /\ history = <<>>
    /\ instructions = <<>> /\ registers = <<>> /\ memory = <<>> /\ pc = 0
    /\ flags = Flags_empty /\ vm_thread = "unspawned"
    /\ chan = <<>> /\ sent = <<>> /\ ylog = <<>> /\ host = "idle" /\ printed = <<>>
    /\ stored = <<>> /\ source = Src("text", "", 0, 0)
    /\ compared = <<>> /\ steps = 0 /\ block = NoBlock
    /\ lock = 0 /\ threads = <<>> /\ issued = <<>>

PipelineInit == PipelineInitOn(Texts)

CallLex ==
    /\ Callable
    /\ Returned("lex", Pipeline_lex(pipeline, sieve))
    /\ UNCHANGED <<machine, overflow_checks, history, registry, block>>

CallParse ==
    /\ Callable
    /\ Returned("parse", Pipeline_parse(pipeline, sieve))
    /\ UNCHANGED <<machine, overflow_checks, history, registry, block>>

CallBuild ==
    /\ Callable
    /\ \E uuid \in UuidSeeds : Returned("build", Pipeline_build(pipeline, sieve, uuid))
    /\ UNCHANGED <<machine, overflow_checks, history, registry, block>>

\* Pipeline::run up to thread::spawn, with Machine::new
CallRun ==
    /\ Callable
    /\ Returned("run", Pipeline_run(pipeline, sieve))
    /\ IF Pipeline_run(pipeline, sieve).status = "ok"
       THEN /\ instructions' = pipeline.payload
            /\ memory' = [i \in 0..(pipeline.args - 1) |-> 0]
            /\ vm_thread' = "running"
            /\ host' = "recv"
            /\ UNCHANGED <<registers, pc, flags, chan, sent, ylog, printed, stored, source,
                           compared, steps>>
       ELSE UNCHANGED machine
    /\ UNCHANGED <<overflow_checks, history, registry, block>>

\* the run has ended without a panic of the main thread
RunOver ==
    \/ host = "returned"
    \/ host = "idle" /\ outcome.status = "err" /\ outcome.err \notin PipelineError

\* the process goes on to its next pipeline on the same text, as the editor
\* front end does at every call of build_from_string (lead-w/src/lib.rs), at once
\* or after the process has made more spans
NewRun ==
    /\ RunOver
    /\ Len(history) + 1 < MaxRuns
    /\ sieve' \in {sieve} \cup {q \in {expand(EarlierPrime - 1)} : sieve < q}
    /\ history' = Append(history, [src |-> pipeline.src, printed |-> printed])
    /\ pipeline' = Text(pipeline.src, pipeline.args)
    /\ outcome' = NoOutcome /\ done' = <<>> /\ calls' = 0
    /\ instructions' = <<>> /\ registers' = <<>> /\ memory' = <<>> /\ pc' = 0
    /\ flags' = Flags_empty /\ vm_thread' = "unspawned"
    /\ chan' = <<>> /\ sent' = <<>> /\ ylog' = <<>> /\ host' = "idle" /\ printed' = <<>>
    /\ stored' = <<>> /\ compared' = <<>> /\ steps' = 0
    /\ UNCHANGED <<source, overflow_checks, registry, block>>

PipelineNext ==
    \/ CallLex \/ CallParse \/ CallBuild \/ CallRun \/ NewRun
    \/ RunStep \/ RunDone \/ HostRecv \/ HostRecvErr \/ HostJoin

PipelineSpec == PipelineInit /\ [][PipelineNext]_vars

\* the same process on the named texts only
StageSpec == PipelineInitOn(NamedTexts) /\ [][PipelineNext]_vars

(***************************************************************************)
(* Properties of the pipeline.                                             *)
(***************************************************************************)
\* the variant each stage takes, and the error it returns on any other
StageVariant ==
    [lex |-> "Text", parse |-> "Tokens", build |-> "SyntaxTree", run |-> "IntermediateRepr"]

StageError ==
    [lex |-> "InvalidLex", parse |-> "InvalidParse", build |-> "InvalidBuild",
     run |-> "InvalidRun"]

\* this step is a call of the stage
Called(stage) == calls' = calls + 1 /\ outcome'.stage = stage

\* C12: in any sequence of stage calls, lex returns Ok only on Text, parse only on
\* Tokens, build only on SyntaxTree and run only on IntermediateRepr; a call on any
\* other variant returns the stage's own Invalid error and leaves the value as it was;
\* so whenever the run has begun, the stages that returned Ok are lex, parse, build
\* and run, in that order.
C12_StagesInOrder ==
    /\ [][\A stage \in DOMAIN StageVariant :
            Called(stage) =>
              /\ outcome'.status = "ok" => pipeline.variant = StageVariant[stage]
              /\ pipeline.variant # StageVariant[stage] =>
                   /\ outcome'.status = "err"
                   /\ outcome'.err = StageError[stage]
                   /\ pipeline' = pipeline]_vars
    /\ [](host # "idle" => done = <<"lex", "parse", "build", "run">>)

\* a run that has returned, after at least one call on a wrong variant
C12_Witness == host = "returned" /\ calls > 4 /\ printed # <<>>

\* the run has ended: it returned, or a stage or the main thread stopped it
RunEnded ==
    \/ host \in {"returned", "panicked"}
    \/ host = "idle" /\ outcome.status = "panic"
    \/ host = "idle" /\ outcome.status = "err" /\ outcome.err \notin PipelineError

\* C13: a run of the pipeline that has ended has printed the same sequence of yielded
\* values as every earlier run of the process on the same source text, whatever label
\* names the generator drew, whatever span ids the registry handed out and however
\* the worker and the host interleaved.
C13_SameTextSameYields ==
    \A i \in 1..Len(history) :
        (RunEnded /\ history[i].src = pipeline.src) => printed = history[i].printed

\* the tokens of a text; their types do not depend on the sieve
TokensOf(src) == Lexer_run(src, 0).tokens

\* toks[i..j] is p1 op1 p2 ... pn with numbers and identifiers as primaries
IsChain(toks, i, j) ==
    /\ i <= j
    /\ (j - i) % 2 = 0
    /\ \A k \in i..j :
         IF (k - i) % 2 = 0 THEN toks[k].ty \in {"Number", "Identifier"}
         ELSE toks[k].ty \in DOMAIN BinaryOperators

Primary(tok) ==
    IF tok.ty = "Number"
    THEN Number(tok.num[1] + 256 * tok.num[2] + 65536 * tok.num[3] + 16777216 * tok.num[4])
    ELSE Identifier(tok.name)

\* p1 op1 (p2 op2 (... pn))
RECURSIVE RightNested(_, _, _)
RightNested(toks, i, j) ==
    IF i = j THEN Primary(toks[i])
    ELSE Binary(BinaryOperators[toks[i + 1].ty], Primary(toks[i]), RightNested(toks, i + 2, j))

\* parse has just been called on the tokens of the text
Parsed == outcome.stage = "parse" /\ outcome.err # "InvalidParse"

\* C14: when parse is called on the tokens of a chain p1 op1 p2 ... pn, alone or as
\* the expression of a yield statement, it returns Ok and the expression is the fully
\* right-nested tree p1 op1 (p2 op2 (... pn)), whichever operators are used.
C14_ChainsRightNested ==
    LET toks == TokensOf(pipeline.src)
        n    == Len(toks)
    IN  Parsed =>
          /\ IsChain(toks, 1, n - 1) =>
               /\ outcome.status = "ok"
               /\ pipeline.payload = <<Expr(RightNested(toks, 1, n - 1))>>
          /\ (n >= 4 /\ toks[1].ty = "Yield" /\ toks[n - 1].ty = "Semicolon"
                /\ IsChain(toks, 2, n - 2)) =>
               /\ outcome.status = "ok"
               /\ pipeline.payload = <<YieldStmt(RightNested(toks, 2, n - 2))>>

\* C15: when parse is called on the tokens of a bare expression, a `;` and a yield
\* statement, as for `1 + 2; yield 3;`, it returns Ok with two statements: the
\* expression statement and the yield, every token up to the end of input consumed.
C15_ExpressionStatement ==
    LET toks == TokensOf(pipeline.src)
    IN  \A j \in 1..(Len(toks) - 1) :
            (Parsed /\ IsChain(toks, 1, j) /\ toks[j + 1].ty = "Semicolon") =>
              /\ outcome.status = "ok"
              /\ Len(pipeline.payload) = 2
              /\ pipeline.payload[1] = Expr(RightNested(toks, 1, j))
              /\ pipeline.payload[2].k = "Yield"
              /\ outcome.index = Len(toks) - 1

\* C16: when parse returns Ok, the parser stands at the end-of-input token: every
\* token before it has been consumed into the statements returned.
C16_NoSuffixLeft ==
    (Parsed /\ outcome.status = "ok") => outcome.index = Len(TokensOf(pipeline.src)) - 1

Stages == <<"lex", "parse", "build", "run">>

\* the position of a stage in the pipeline
StageNumber(stage) == CHOOSE i \in 1..Len(Stages) : Stages[i] = stage

\* C17: on every text, a call of lex, parse or build ends by returning Ok or an
\* error value, never by a panic; and after a stage has returned a LangError, a call
\* of a later stage does not run it: it returns the stage's Invalid error.
C17_ErrorsAreValues ==
    /\ [](outcome.stage \in {"lex", "parse", "build"} => outcome.status \in {"ok", "err"})
    /\ [][\A stage \in DOMAIN StageVariant :
            (/\ Called(stage)
             /\ outcome.status = "err" /\ outcome.err \notin PipelineError
             /\ StageNumber(outcome.stage) < StageNumber(stage)) =>
                outcome'.err = StageError[stage]]_vars

(***************************************************************************)
(* Threads that make spans (lex/span.rs).  Every thread calls Span::new    *)
(* and joins the span it got onto the one it holds, as the parser does     *)
(* along a nested expression; the sieve and its mutex are shared.          *)
(***************************************************************************)
Threads == {1, 2}

\* the spans thread 1 makes, and the spans every other thread makes
MaxNested == 16

MaxOther == 1

Quota(t) == IF t = 1 THEN MaxNested ELSE MaxOther

\* the ranges spans are made for: that of the end-of-input token of an empty text
\* (Token::new(TokenType::EOF, 0, 0)) and that of a token of two characters
SpanRanges == {<<0, 0>>, <<1, 3>>}

\* a thread outside Span::new that has made no span
Idle ==
    [pc |-> "idle", n |-> 0, prime |-> 0, span |-> NoSpan, acc |-> NoSpan, made |-> 0]

\* a thread other than the holder gets past Mutex::lock
Mutex_lock_held(l) == TRUE

\* Mutex::lock returns once no thread holds the mutex
Mutex_lock(l) == l = 0

SpanInit ==
    /\ overflow_checks \in BOOLEAN
    /\ sieve = 0
    /\ lock = 0
    /\ threads = [t \in Threads |-> Idle]
    /\ issued = <<>>
    /\ pipeline = NoPipeline /\ outcome = NoOutcome /\ done = <<>> /\ calls = 0
    /\ history = <<>>
    /\ instructions = <<>> /\ registers = <<>> /\ memory = <<>> /\ pc = 0
    /\ flags = Flags_empty /\ vm_thread = "unspawned"
    /\ chan = <<>> /\ sent = <<>> /\ ylog = <<>> /\ host = "idle" /\ printed = <<>>
    /\ stored = <<>> /\ source = Src("text", "", 0, 0)
    /\ compared = <<>> /\ steps = 0 /\ block = NoBlock

\* Span::new: get_primes_sieve().lock().unwrap()
NewLock(t) ==
    /\ threads[t].pc = "idle"
    /\ threads[t].made < Quota(t)
    /\ Mutex_lock(lock)
    /\ threads' = [threads EXCEPT ![t].pc = "locked"]
    /\ lock' = t
    /\ UNCHANGED <<machine, front, block, overflow_checks, sieve, issued>>

\* .generator(): an iterator that starts at the end of the list of primes
NewGenerator(t) ==
    /\ threads[t].pc = "locked"
    /\ threads' = [threads EXCEPT ![t].pc = "generator", ![t].n = sieve]
    /\ UNCHANGED <<machine, front, block, overflow_checks, sieve, lock, issued>>

\* .next().unwrap(): the list has no prime at the iterator's place, so the sieve
\* expands and the new prime is returned
NewNext(t) ==
    /\ threads[t].pc = "generator"
    /\ LET prime == expand(threads[t].n)
       IN  /\ threads' = [threads EXCEPT ![t].pc = "next", ![t].prime = prime]
           /\ sieve' = Max(sieve, prime)
    /\ UNCHANGED <<machine, front, block, overflow_checks, lock, issued>>

\* Span::new returns the span with the range it was called with, which the
\* assertion has let pass; the guard is dropped, the mutex unlocked
NewReturn(t) ==
    /\ threads[t].pc = "next"
    /\ \E range \in SpanRanges :
         /\ range[1] <= range[2]
         /\ threads' = [threads EXCEPT
                          ![t].pc = "join",
                          ![t].span = [id |-> U64(threads[t].prime), span |-> range],
                          ![t].made = threads[t].made + 1]
    /\ issued' = Append(issued, [thread |-> t, prime |-> threads[t].prime])
    /\ lock' = 0
    /\ UNCHANGED <<machine, front, block, overflow_checks, sieve>>

\* the thread's first span is held as it is; a later one is joined onto the span
\* held: Span::superspan(span, acc), as Application::from_binary does
SpanJoin(t) ==
    /\ threads[t].pc = "join"
    /\ IF threads[t].made = 1
       THEN threads' = [threads EXCEPT ![t].pc = "idle", ![t].acc = threads[t].span]
       ELSE LET joined == superspan(threads[t].span, threads[t].acc)
            IN  IF joined.panicked
                THEN threads' = [threads EXCEPT ![t].pc = "panicked"]
                ELSE threads' = [threads EXCEPT ![t].pc = "idle", ![t].acc = joined.span]
    /\ UNCHANGED <<machine, front, block, overflow_checks, sieve, lock, issued>>

SpanSteps ==
    \E t \in Threads :
        NewLock(t) \/ NewGenerator(t) \/ NewNext(t) \/ NewReturn(t) \/ SpanJoin(t)

SpanSpec == SpanInit /\ [][SpanSteps]_vars

(***************************************************************************)
(* Properties of the span registry.                                        *)
(***************************************************************************)
\* C18: whenever a thread joins the span a it has made onto the span b it holds,
\* superspan(a, b) returns a span whose range is [min(a.lo, b.lo), max(a.hi, b.hi)]
\* with lo <= hi, whose id is a.id * b.id as a 64-bit value, and whose distinct
\* prime factors include every prime factor of a.id and of b.id, however many
\* spans have been joined before.
C18_SuperspanKeepsFactors ==
    [][\A t \in Threads :
         (threads[t].pc = "join" /\ threads[t].made > 1 /\ threads'[t].pc # "join") =>
            LET a == threads[t].span
                b == threads[t].acc
                j == threads'[t].acc
            IN  /\ threads'[t].pc = "idle"
                /\ j.span = <<Min(a.span[1], b.span[1]), Max(a.span[2], b.span[2])>>
                /\ j.span[1] <= j.span[2]
                /\ j.id = MulU64(a.id, b.id).val
                /\ composing_ids(a, sieve) \cup composing_ids(b, sieve)
                     \subseteq composing_ids(j, sieve)]_vars

\* the spans the threads hold: the last one made and the joined one
Held == UNION {{threads[t].span, threads[t].acc} : t \in {u \in Threads : threads[u].made > 0}}

\* C19: every span s held, zero-length ones included, is a superset of itself and
\* is not disjoint from itself.
C19_SelfSupersetNotDisjoint ==
    \A s \in Held : is_superset(s, s) /\ ~is_disjoint(s, s)

\* C19 (amended): every span s held is a superset of itself; it is disjoint from
\* itself exactly when it is zero-length (lo = hi), and not when lo < hi.
C19_SelfDisjointIffEmpty ==
    \A s \in Held : is_superset(s, s) /\ (is_disjoint(s, s) <=> s.span[1] = s.span[2])

\* a zero-length span and a longer one are held
C19_Witness ==
    /\ \E s \in Held : s.span[1] = s.span[2] /\ is_disjoint(s, s)
    /\ \E s \in Held : s.span[1] < s.span[2] /\ ~is_disjoint(s, s)

\* C20: under any interleaving of the threads' Span::new calls, the ids handed out
\* are primes and no two calls, returned or still inside Span::new, have the same id.
C20_UniquePrimeIds ==
    /\ \A i \in 1..Len(issued) : IsPrime(issued[i].prime)
    /\ \A i, k \in 1..Len(issued) : i # k => issued[i].prime # issued[k].prime
    /\ \A t \in Threads :
         threads[t].pc = "next" =>
           /\ IsPrime(threads[t].prime)
           /\ \A i \in 1..Len(issued) : issued[i].prime # threads[t].prime
           /\ \A u \in Threads \ {t} :
                threads[u].pc = "next" => threads[u].prime # threads[t].prime
    /\ \A t \in Threads :
         threads[t].pc \in {"join", "idle"} /\ threads[t].made > 0 =>
           threads[t].span.id = U64(threads[t].prime)

\* the calls of two threads have interleaved, and a thread is inside Span::new while
\* the other is about to call it
C20_Witness ==
    /\ \E i, j, k \in 1..Len(issued) :
         i < j /\ j < k /\ issued[i].thread = issued[k].thread
         /\ issued[j].thread # issued[i].thread
    /\ \E t, u \in Threads : lock = t /\ u # t /\ threads[u].pc = "idle"


(***************************************************************************)
(* Properties of the flag mask.                                            *)
(***************************************************************************)
\* whether the unsigned words x and y are in the relation the flag names
Related(flag, x, y) ==
    CASE flag = "Eq" -> x = y
      [] flag = "Ne" -> x # y
      [] flag = "Lt" -> LtW(x, y)
      [] flag = "Le" -> LeW(x, y)
      [] flag = "Gt" -> LtW(y, x)
      [] flag = "Ge" -> LeW(y, x)

\* the six flags a CMP sets
Relations == {"Eq", "Ne", "Lt", "Le", "Gt", "Ge"}

\* the machine runs a program the generator built
Generated == source.name \in {s.source.name : s \in Sources}

\* C21: in every program built by the generator, whenever a CHK f with f
\* among Eq, Ne, Lt, Le, Gt, Ge executes, f is reported set exactly when the
\* operands of the CMP executed last satisfy the relation f.
C21_CHKReportsLastCMP ==
    [][(RunStep /\ Generated /\ fetch[1].op = "CHK" /\ fetch[1].flag \in Relations) =>
          /\ compared # <<>>
          /\ Flags_contains(flags, fetch[1].flag) <=>
                Related(fetch[1].flag, compared[1], compared[2])]_vars

\* C22: the flag mask never loses a bit; a CMP adds exactly the bits among
\* Eq, Ne, Lt, Le, Gt, Ge whose relation holds between its operands, as
\* unsigned 32-bit values, and no other instruction changes the mask.
C22_MaskOnlyGrows ==
    /\ [][\A f \in Flag : BitSet(flags, f) => BitSet(flags', f)]_vars
    /\ [][(RunStep /\ fetch[1].op = "CMP" /\ vm_thread' = "running") =>
            \A f \in Flag :
                BitSet(flags', f) <=>
                    \/ BitSet(flags, f)
                    \/ /\ f \in Relations
                       /\ Related(f, registers[fetch[1].rx], registers[fetch[1].ry])]_vars
    /\ [][(RunStep /\ fetch[1].op # "CMP") => flags' = flags]_vars

\* the second CMP of the chk program, on (1, 0), has added Gt and Ge to the
\* Al, Ne, Lt and Le the mask held after the first, on (0, 1)
C22_Witness ==
    /\ source.name = "chk"
    /\ source.a = 0 /\ source.b = 1
    /\ pc = 7
    /\ flags = 125

\* C23: bit 0 (Al) of the mask is set in every state of the machine, so a
\* CHK Al never skips; Nv is never reported set, so a CHK Nv always skips the
\* instruction after it.
C23_AlAlwaysNvNever ==
    /\ [](BitSet(flags, "Al") /\ Flags_contains(flags, "Al"))
    /\ [](~Flags_contains(flags, "Nv"))
    /\ [][(RunStep /\ fetch[1].op = "CHK" /\ fetch[1].flag = "Al") => pc' = pc + 1]_vars
    /\ [][(RunStep /\ fetch[1].op = "CHK" /\ fetch[1].flag = "Nv") => pc' = pc + 2]_vars

\* the chk program with Nv has skipped the YLD after each of its first two CHK
\* and the one with Al has skipped none
C23_Witness ==
    /\ source.name = "chk"
    /\ \/ source.op = "Nv" /\ pc = 9 /\ ylog = <<U32(source.b)>>
       \/ source.op = "Al" /\ pc = 9
                           /\ ylog = <<U32(source.a), U32(source.b), U32(source.b)>>


(***************************************************************************)
(* Properties of the generator's allocation and of its control flow.       *)
(***************************************************************************)
\* the statements of the source program the machine runs
Statements == (CHOOSE s \in Sources : s.source = source).insts

\* the big-endian word the memory holds at address a
WordAt(a) == from_be_bytes([i \in 1..4 |-> memory[a + i - 1]])

\* C24: after the lowering of an array literal of n elements next_mem_addr has
\* advanced by 4*n, so the address ranges of two arrays are disjoint and the
\* initialisation of one never overwrites an element of another: when the
\* run of a program of literal arrays has finished, every element is in memory.
C24_ArraysDisjoint ==
    source.name = "two_arrays" =>
        LET st     == generate_program(GenerationState(1), Statements).st
            arrays == {i \in 1..Len(Statements) :
                          Statements[i].k = "Let" /\ Statements[i].value.k = "Array"}
            base(i) == deref_pointer(st, Statements[i].variable)[1]
            size(i) == WORD_SIZE * Len(Statements[i].value.elements)
        IN  /\ \A i \in arrays :
                  /\ base(i) + size(i) <= st.next_mem_addr
                  /\ \A j \in arrays : i < j => base(i) + size(i) <= base(j)
            /\ vm_thread = "finished" =>
                  \A i \in arrays : \A k \in 1..Len(Statements[i].value.elements) :
                      WordAt(base(i) + WORD_SIZE * (k - 1)) =
                          U32(Statements[i].value.elements[k].val)

\* C25: an `if` whose condition holds no comparison, as in
\* `if true { yield 1; } yield 9;`, is lowered with CHK Nv, and no instruction
\* of its body is ever executed: the run yields 9 only.
C25_IfWithoutComparisonSkipsBody ==
    source.name = "if_true" =>
        /\ \E i \in 1..Len(instructions) : instructions[i] = CHK("Nv")
        /\ \A i \in 1..Len(ylog) : ylog[i] # U32(1)
        /\ vm_thread = "finished" => ylog = <<U32(9)>>


(***************************************************************************)
(* Properties of the addressing modes and of termination.                  *)
(***************************************************************************)
\* raddr + ro as the u32 sum of the registers the STR or LDR at pc names
OffsetSum == AddW(registers[fetch[1].ra], registers[fetch[1].mode.r]).val

\* the address the STR or LDR at pc is to access
EffectiveAddress ==
    IF fetch[1].mode.kind \in {"Offset", "PreOffset"} THEN OffsetSum ELSE registers[fetch[1].ra]

\* the value the STR or LDR at pc is to leave in raddr
WrittenBack ==
    IF fetch[1].mode.kind \in {"PreOffset", "PostOffset"} THEN OffsetSum
    ELSE registers[fetch[1].ra]

ForwardOnly ==
    \A i \in 1..Len(instructions) :
        instructions[i].op = "BRA" =>
            /\ \E j \in 1..Len(instructions) : instructions[j] = LBL(instructions[i].label)
            /\ FirstLBL(instructions[i].label) > i - 1

\* C27: the machine executes an instruction only while pc is below the number
\* of instructions and, pc being at or past it (the empty program, or
\* pc = len+1 after a CHK at the last index has skipped), stops and sends Done,
\* once, as its last message; a program whose every BRA targets a label at a
\* higher index moves pc forward at every instruction, so that it has executed
\* at most len instructions when, unless a fatal error stops it before, it
\* reaches that state; until then its next step can always be taken.
C27_DoneAtEndOfProgram ==
    /\ [][RunStep => pc < Len(instructions)]_vars
    /\ [][(sent' # sent /\ sent'[Len(sent')] = Done) =>
            /\ pc >= Len(instructions)
            /\ pc' = pc
            /\ vm_thread' = "finished"
            /\ \A i \in 1..Len(sent) : sent[i] # Done]_vars
    /\ []((vm_thread = "running" /\ pc >= Len(instructions)) =>
            (ENABLED RunDone /\ ~ENABLED RunStep))
    /\ []((vm_thread = "running" /\ pc < Len(instructions)) => step(Self).cont)
    /\ [](vm_thread = "finished" =>
            /\ pc \in {Len(instructions), Len(instructions) + 1}
            /\ sent # <<>> /\ sent[Len(sent)] = Done)
    /\ [][(RunStep /\ ForwardOnly /\ vm_thread' = "running") => pc' > pc]_vars
    /\ [](ForwardOnly =>
            /\ steps <= Len(instructions)
            /\ vm_thread # "panicked" => steps <= pc)

\* the chk program with Nv has skipped past the end from its last CHK, at the
\* last index, and sent Done with pc = len+1 after eight of its ten instructions
C27_Witness ==
    /\ source.name = "chk"
    /\ source.op = "Nv"
    /\ vm_thread = "finished"
    /\ pc = Len(instructions) + 1
    /\ steps = 8
    /\ sent[Len(sent)] = Done


(***************************************************************************)
(* Blocks under construction (lead air/block.rs): every constructor and    *)
(* method that builds a block, and the lowering rules that return one.     *)
(***************************************************************************)
MaxBlock == 3

BlockRegs == {0, 1}

\* instructions over two registers, with and without an output register
BlockInsts ==
    {CON(r, U32(0)) : r \in BlockRegs}
    \cup {NOT(1, 0), MOV(0, 1), LDR(1, 0, ModeNone), YLD(0), CMP(0, 1, Some("Lt"))}

\* the instruction vectors of length up to n
Vectors(n) == UNION {[1..k -> BlockInsts] : k \in 0..n}

BlockInit ==
    /\ block = NoBlock
    /\ overflow_checks = FALSE
    /\ sieve = 0
    /\ pipeline = NoPipeline /\ outcome = NoOutcome /\ done = <<>> /\ calls = 0
    /\ history = <<>>
    /\ instructions = <<>> /\ registers = <<>> /\ memory = <<>> /\ pc = 0
    /\ flags = Flags_empty /\ vm_thread = "unspawned"
    /\ chan = <<>> /\ sent = <<>> /\ ylog = <<>> /\ host = "idle" /\ printed = <<>>
    /\ stored = <<>> /\ source = Src("text", "", 0, 0)
    /\ compared = <<>> /\ steps = 0
    /\ lock = 0 /\ threads = <<>> /\ issued = <<>>

\* the generator's other state is not touched by the building of a block
BlockOnly == UNCHANGED <<machine, front, registry, overflow_checks, sieve>>

\* Block::new, as Literal's lowering calls it for its CON
BlockNew ==
    /\ \E instruction \in BlockInsts : block' = Held_block(Block_new(instruction), None)
    /\ BlockOnly

BlockEmpty ==
    /\ block' = Held_block(Block_empty, None)
    /\ BlockOnly

BlockAppendInst ==
    /\ Len(block.value.instructions) < MaxBlock
    /\ \E instruction \in BlockInsts :
          block' = Held_block(Block_append_inst(block.value, instruction),
                              IF output_register(instruction) # None THEN None ELSE block.set)
    /\ BlockOnly

BlockFromInstructions ==
    /\ \E insts \in Vectors(MaxBlock - 1) :
          block' = Held_block(Block_from_instructions(insts), None)
    /\ BlockOnly

BlockSetOutputRegister ==
    /\ \E reg \in {None} \cup {Some(r) : r \in BlockRegs} :
          block' = Held_block(Block_set_output_register(block.value, reg), Some(reg))
    /\ BlockOnly

BlockExtend ==
    /\ \E iter \in Vectors(1) :
          /\ Len(block.value.instructions) + Len(iter) <= MaxBlock
          /\ block' = Held_block(Block_extend(block.value, iter), None)
    /\ BlockOnly

\* Identifier's lowering: an empty block with the variable's register set as
\* its output register
LowerIdentifier ==
    /\ \E reg \in BlockRegs :
          block' = Held_block(Block_set_output_register(Block_empty, Some(reg)),
                              Some(Some(reg)))
    /\ BlockOnly

BlockNext ==
    \/ BlockNew \/ BlockEmpty \/ BlockAppendInst \/ BlockFromInstructions
    \/ BlockSetOutputRegister \/ BlockExtend \/ LowerIdentifier

BlockSpec == BlockInit /\ [][BlockNext]_vars

\* the destination of the last instruction among ADD, SUB, MUL, DIV, CON and
\* NOT, none when there is no such instruction
LastValue(insts) ==
    LET valued == {i \in 1..Len(insts) :
                      insts[i].op \in {"ADD", "SUB", "MUL", "DIV", "CON", "NOT"}}
    IN  IF valued = {} THEN None
        ELSE Some(insts[CHOOSE i \in valued : \A j \in valued : j <= i].rd)

\* C28: after any sequence of block constructions and of the lowering rules
\* that build a block, the block's output_register is the destination of the
\* last instruction in it among ADD, SUB, MUL, DIV, CON and NOT, and none
\* when the block holds no such instruction.
C28_OutputRegisterIsLastValue ==
    block.value.output_register = LastValue(block.value.instructions)

\* C28, amended: the output_register is the destination of the last such
\* instruction, none when there is none, unless set_output_register was
\* called after that instruction was put in: then it is the register given
\* to that call, as in the instruction-less block of an Identifier.
C28_OutputRegisterUnlessSet ==
    block.value.output_register =
        IF block.set = None THEN LastValue(block.value.instructions) ELSE block.set[1]

\* a block whose CON r0 was followed by set_output_register(Some(r1)) and by
\* the appending of a MOV and a YLD, which have no output register: it is r1
C28_Witness ==
    /\ block.value.instructions = <<CON(0, U32(0)), MOV(0, 1), YLD(0)>>
    /\ block.set = Some(Some(1))
    /\ block.value.output_register = Some(1)


(***************************************************************************)
(* Properties of the programs the generator builds.                        *)
(***************************************************************************)
\* C29: distinct scalar variables are held in distinct registers: in
\* `let x := 1; let y := x; y := e; yield x; yield y;` the generator gives x and
\* y different registers, and the assignment to y changes the value read
\* through y only: the run yields 1, then e.
C29_DistinctVariablesDistinctRegisters ==
    source.name = "alias" =>
        LET st == generate_program(GenerationState(1), Statements).st
        IN  /\ variable_register(st, "x") # variable_register(st, "y")
            /\ vm_thread = "finished" => ylog = <<U32(1), U32(source.a)>>

\* the labels the BRA instructions of the program name and no LBL defines
MissingTargets ==
    {instructions[i].label : i \in {j \in 1..Len(instructions) : instructions[j].op = "BRA"}}
        \ {instructions[i].label : i \in {j \in 1..Len(instructions) : instructions[j].op = "LBL"}}

\* the worker has stopped at a BRA whose label find_label does not find
StoppedAtMissingTarget ==
    /\ vm_thread = "panicked"
    /\ fetch # None
    /\ fetch[1].op = "BRA"
    /\ find_label(fetch[1].label) = None

\* C30: in every program the generator builds, each BRA names a label that
\* some LBL of the program defines, so that no such program stops the machine
\* at a branch with a missing target.
C30_EveryBranchTargetDefined ==
    Generated => (MissingTargets = {} /\ ~StoppedAtMissingTarget)

====
